---- MODULE Spec2Model ----
(***************************************************************************)
(* FlowYAML: a visual editor for decision flowcharts.                      *)
(*                                                                         *)
(* The module models                                                       *)
(*   - the layout engine  autoLayout            (src/lib/flow-utils.ts),   *)
(*   - the YAML codec     generateYaml/parseYaml (src/lib/flow-utils.ts),  *)
(*   - the editor state and its event handlers  (src/app/page.tsx).        *)
(*                                                                         *)
(* Numbers: a horizontal coordinate is held in units of 1/XUnit pixel, so  *)
(* that the mean of two child coordinates (a division by 2 at each level   *)
(* of the graph) is computed exactly.  Vertical coordinates are pixels.    *)
(***************************************************************************)
EXTENDS Integers, Sequences, FiniteSets, TLC

(***************************************************************************)
(* Bounds of the model.                                                    *)
(***************************************************************************)
MaxLayoutNodes == 3      \* nodes of a graph handed to autoLayout
MaxEdges == 3            \* non-empty path references of such a graph
MaxNodes == 7            \* nodes of the live graph of the editor
MaxClock == 2            \* values taken by Date.now()
MaxSteps == 3            \* events handled in one editing session
MaxCodecNodes == 2       \* nodes of a graph handed to generateYaml
MaxParseEntries == 2
MaxPending == 2
MaxRouterNodes == 3

XUnit == 2 ^ (MaxNodes + 1)

(***************************************************************************)
(* Generic helpers.                                                        *)
(***************************************************************************)
Range(s) == {s[i] : i \in DOMAIN s}

\* a value that may be missing (null)
Null == <<>>

Some(v) == <<v>>

Max2(a, b) == IF a > b THEN a ELSE b

Min2(a, b) == IF a < b THEN a ELSE b

RECURSIVE Reverse(_)
Reverse(s) == IF s = <<>> THEN <<>> ELSE Append(Reverse(Tail(s)), Head(s))

RECURSIVE IndexOf(_, _)
\* Array.prototype.indexOf, 0-based, -1 when absent
IndexOf(s, e) ==
    IF s = <<>> THEN -1
    ELSE IF Head(s) = e THEN 0
    ELSE LET r == IndexOf(Tail(s), e) IN IF r = -1 THEN -1 ELSE r + 1

(***************************************************************************)
(* Strings.  TLC strings are atomic, so the order String.localeCompare     *)
(* gives to the strings the model uses is tabulated, ascending.            *)
(***************************************************************************)
Collation ==
    << "", " ", "0", "1", "2", "a", "b", "c", "condition", "d", "decision_1",
       "decision_2", "decision_3", "decision_4", "e", "f", "highDiscount",
       "highPurchaseCheck", "inputs", "loyaltyCheck", "name", "negativePath",
       "noDiscount", "nodes", "output", "positivePath", "renamed",
       "standardDiscount", "startNode", "terminator_1", "terminator_2",
       "terminator_3", "terminator_4", "type", "zz" >>

Rank(s) == CHOOSE i \in DOMAIN Collation : Collation[i] = s

localeCompare(a, b) == Rank(a) - Rank(b)

(***************************************************************************)
(* Data model (types.ts).                                                  *)
(***************************************************************************)
NodePosition(x, y) == [x |-> x, y |-> y]

DecisionNodeData(condition, positivePath, negativePath) ==
    [condition |-> condition, positivePath |-> positivePath,
     negativePath |-> negativePath]

TerminatorNodeData(output) == [output |-> output]

FlowNode(id, type, position, data) ==
    [id |-> id, type |-> type, position |-> position, data |-> data]

NodeIds(nodes) == {nodes[i].id : i \in DOMAIN nodes}

\* nodes.some(n => n.id === id)
HasNode(nodes, id) == \E i \in DOMAIN nodes : nodes[i].id = id

\* the nodes a decision node's non-empty paths resolve to
Targets(nodes, i) ==
    IF nodes[i].type = "decision"
    THEN {t \in {nodes[i].data.positivePath, nodes[i].data.negativePath} :
             t # "" /\ HasNode(nodes, t)}
    ELSE {}

(***************************************************************************)
(* autoLayout, the last version of the function in flow-utils.ts.          *)
(***************************************************************************)
PADDING_X == 100
PADDING_Y == 50
LEVEL_HEIGHT == 200
NODE_WIDTH == 250

CycleMessage == "Cycle detected in flowchart."

\* new Map(nodes.map(n => [n.id, n])): the last node of an id wins
nodeMapOf(nodes) ==
    [id \in NodeIds(nodes) |->
        nodes[CHOOSE i \in DOMAIN nodes :
                 /\ nodes[i].id = id
                 /\ \A j \in DOMAIN nodes : nodes[j].id = id => j <= i]]

\* ChildrenOf with a reference of a node to itself not taken as an edge
ChildrenOfNoSelf(node, ids) ==
    IF node.type = "decision"
    THEN SelectSeq(<<node.data.positivePath, node.data.negativePath>>,
                   LAMBDA id : id # "" /\ id \in ids /\ id # node.id)
    ELSE <<>>

\* ChildrenOf with a reference to a missing node taken as an edge of the node
\* to itself
ChildrenOfDanglingToSelf(node, ids) ==
    IF node.type = "decision"
    THEN LET refs == SelectSeq(<<node.data.positivePath, node.data.negativePath>>,
                               LAMBDA id : id # "")
         IN [k \in DOMAIN refs |-> IF refs[k] \in ids THEN refs[k] ELSE node.id]
    ELSE <<>>

\* [positivePath, negativePath].filter(id => id && nodeMap.has(id))
ChildrenOf(node, ids) ==
    IF node.type = "decision"
    THEN SelectSeq(<<node.data.positivePath, node.data.negativePath>>,
                   LAMBDA id : id # "" /\ id \in ids)
    ELSE <<>>

RECURSIVE BuildAdj(_, _, _)
\* step 1: adjacency lists and in-degrees, both keyed by node id
BuildAdj(nodes, i, g) ==
    IF i > Len(nodes) THEN g
    ELSE LET u == nodes[i].id
             ch == ChildrenOf(nodes[i], DOMAIN g.adj)
             deg == [v \in DOMAIN g.inDegree |->
                        g.inDegree[v] + Cardinality({k \in DOMAIN ch : ch[k] = v})]
         IN BuildAdj(nodes, i + 1,
                     [adj |-> [g.adj EXCEPT ![u] = @ \o ch], inDegree |-> deg])

RECURSIVE VisitChildrenFirstVisit(_, _, _)
\* VisitChildren with the level of a child set on its first visit only
\* (breadth-first levels instead of longest-path levels)
VisitChildrenFirstVisit(children, u, st) ==
    IF children = <<>> THEN st
    ELSE LET v == Head(children)
             newLevel == st.levels[u] + 1
             lv == IF st.levels[v] = 0
                   THEN [st.levels EXCEPT ![v] = newLevel]
                   ELSE st.levels
             deg == [st.inDegree EXCEPT ![v] = @ - 1]
             q == IF deg[v] = 0 THEN Append(st.queue, v) ELSE st.queue
         IN VisitChildrenFirstVisit(Tail(children), u,
                [st EXCEPT !.levels = lv, !.inDegree = deg, !.queue = q])

RECURSIVE VisitChildren(_, _, _)
\* the inner loop of Kahn's algorithm over the children of u
VisitChildren(children, u, st) ==
    IF children = <<>> THEN st
    ELSE LET v == Head(children)
             newLevel == st.levels[u] + 1
             lv == IF newLevel > st.levels[v]
                   THEN [st.levels EXCEPT ![v] = newLevel]
                   ELSE st.levels
             deg == [st.inDegree EXCEPT ![v] = @ - 1]
             q == IF deg[v] = 0 THEN Append(st.queue, v) ELSE st.queue
         IN VisitChildren(Tail(children), u,
                [st EXCEPT !.levels = lv, !.inDegree = deg, !.queue = q])

RECURSIVE KahnLoop(_, _)
\* while (queue.length > 0) { ... }
KahnLoop(adj, st) ==
    IF st.queue = <<>> THEN st
    ELSE LET u == Head(st.queue)
             st1 == [st EXCEPT !.queue = Tail(@),
                               !.sortedNodes = Append(@, u)]
         IN KahnLoop(adj, VisitChildren(adj[u], u, st1))

\* step 2: levels by topological order, and the order itself
TopoLevels(nodes) ==
    LET ids == NodeIds(nodes)
        g == BuildAdj(nodes, 1, [adj |-> [id \in ids |-> <<>>],
                                 inDegree |-> [id \in ids |-> 0]])
        idSeq == [i \in DOMAIN nodes |-> nodes[i].id]
        queue == SelectSeq(idSeq, LAMBDA id : g.inDegree[id] = 0)
        st == KahnLoop(g.adj, [queue |-> queue,
                               levels |-> [id \in ids |-> 0],
                               inDegree |-> g.inDegree,
                               sortedNodes |-> <<>>])
    IN [adj |-> g.adj, levels |-> st.levels, sortedNodes |-> st.sortedNodes]

\* if (sortedNodes.length !== nodes.length) throw
HasCycle(nodes) == Len(TopoLevels(nodes).sortedNodes) # Len(nodes)

(***************************************************************************)
(* Step 3: grouping of the decision nodes by level.                        *)
(***************************************************************************)
\* nodesByLevel.get(level) || []: ids of the decision nodes of a level, in
\* the order of the node list
nodesByLevelAt(nodes, levels, level) ==
    LET idx == SelectSeq([i \in 1..Len(nodes) |-> i],
                         LAMBDA i : /\ nodes[i].type = "decision"
                                    /\ levels[nodes[i].id] = level)
    IN [k \in DOMAIN idx |-> nodes[idx[k]].id]

DecisionLevels(nodes, levels) ==
    {levels[nodes[i].id] : i \in {j \in DOMAIN nodes : nodes[j].type = "decision"}}

maxDecisionLevelOf(nodes, levels) ==
    LET ls == DecisionLevels(nodes, levels) \cup {0}
    IN CHOOSE m \in ls : \A l \in ls : l <= m

RECURSIVE InsertByKey(_, _)
InsertByKey(sorted, e) ==
    IF sorted = <<>> THEN <<e>>
    ELSE IF Head(sorted).key <= e.key
         THEN <<Head(sorted)>> \o InsertByKey(Tail(sorted), e)
         ELSE <<e>> \o sorted

RECURSIVE StableSort(_)
\* Array.prototype.sort with a numeric comparator: stable, ascending by key
StableSort(s) ==
    IF s = <<>> THEN <<>>
    ELSE InsertByKey(StableSort(SubSeq(s, 1, Len(s) - 1)), s[Len(s)])

(***************************************************************************)
(* Step 4: the terminators, ordered by id, on the row below the deepest    *)
(* decision level.                                                         *)
(***************************************************************************)
terminatorNodesOf(nodes) ==
    LET ts == SelectSeq(nodes, LAMBDA n : n.type = "terminator")
        keyed == [i \in DOMAIN ts |-> [key |-> Rank(ts[i].id), val |-> ts[i]]]
        sorted == StableSort(keyed)
    IN [i \in DOMAIN sorted |-> sorted[i].val]

RECURSIVE PlaceTerminatorsDescending(_, _, _, _)
\* variant: the sorted terminators are laid out from right to left
PlaceTerminatorsDescending(ts, i, terminatorY, positions) ==
    IF i > Len(ts) THEN positions
    ELSE PlaceTerminatorsDescending(ts, i + 1, terminatorY,
            (ts[i].id :> NodePosition(((Len(ts) - i) * (NODE_WIDTH + PADDING_X)
                                        + PADDING_X) * XUnit, terminatorY))
            @@ positions)

RECURSIVE PlaceTerminators(_, _, _, _)
PlaceTerminators(ts, i, terminatorY, positions) ==
    IF i > Len(ts) THEN positions
    ELSE PlaceTerminators(ts, i + 1, terminatorY,
            (ts[i].id :> NodePosition(((i - 1) * (NODE_WIDTH + PADDING_X)
                                        + PADDING_X) * XUnit, terminatorY))
            @@ positions)

(***************************************************************************)
(* Step 5: the decision nodes, bottom-up in reverse topological order.     *)
(***************************************************************************)
RECURSIVE SumX(_, _)
SumX(ids, positions) ==
    IF ids = <<>> THEN 0 ELSE positions[Head(ids)].x + SumX(Tail(ids), positions)

RECURSIVE PlaceDecisions(_, _, _, _)
PlaceDecisions(order, nodes, topo, positions) ==
    IF order = <<>> THEN positions
    ELSE LET nodeId == Head(order)
             node == nodeMapOf(nodes)[nodeId]
         IN IF node.type = "terminator"
            THEN PlaceDecisions(Tail(order), nodes, topo, positions)
            ELSE LET level == topo.levels[nodeId]
                     y == level * LEVEL_HEIGHT + PADDING_Y
                     children == SelectSeq(topo.adj[nodeId],
                                           LAMBDA id : id \in DOMAIN positions)
                     indexInLevel ==
                         IndexOf(nodesByLevelAt(nodes, topo.levels, level), nodeId)
                     x == IF Len(children) > 0
                          THEN SumX(children, positions) \div Len(children)
                          ELSE (indexInLevel * (NODE_WIDTH + PADDING_X)
                                + PADDING_X) * XUnit
                 IN PlaceDecisions(Tail(order), nodes, topo,
                                   (nodeId :> NodePosition(x, y)) @@ positions)

(***************************************************************************)
(* Step 6: horizontal overlaps inside each decision level.                 *)
(***************************************************************************)
desiredSpacing == (NODE_WIDTH + PADDING_X \div 2) * XUnit

RECURSIVE ShiftFrom(_, _, _, _)
\* for (j = i + 1; j < levelNodes.length; j++) levelNodes[j].pos.x += shift
ShiftFrom(levelNodes, j, shift, positions) ==
    IF j > Len(levelNodes) THEN positions
    ELSE ShiftFrom(levelNodes, j + 1, shift,
                   [positions EXCEPT ![levelNodes[j]].x = @ + shift])

RECURSIVE ResolveLevel(_, _, _)
ResolveLevel(levelNodes, i, positions) ==
    IF i >= Len(levelNodes) THEN positions
    ELSE LET currentSpacing == positions[levelNodes[i + 1]].x
                               - positions[levelNodes[i]].x
         IN IF currentSpacing < desiredSpacing
            THEN ResolveLevel(levelNodes, i + 1,
                    ShiftFrom(levelNodes, i + 1,
                              desiredSpacing - currentSpacing, positions))
            ELSE ResolveLevel(levelNodes, i + 1, positions)

\* the ids of one level sorted by their x, ascending
SortedLevelNodes(ids, positions) ==
    LET keyed == [i \in DOMAIN ids |->
                     [key |-> positions[ids[i]].x, val |-> ids[i]]]
        sorted == StableSort(keyed)
    IN [i \in DOMAIN sorted |-> sorted[i].val]

RECURSIVE ResolveOverlaps(_, _, _, _, _)
ResolveOverlaps(level, maxLevel, nodes, levels, positions) ==
    IF level > maxLevel THEN positions
    ELSE LET ids == nodesByLevelAt(nodes, levels, level)
         IN ResolveOverlaps(level + 1, maxLevel, nodes, levels,
                ResolveLevel(SortedLevelNodes(ids, positions), 1, positions))

(***************************************************************************)
(* Step 7 and the function as a whole.  The result is the returned list,   *)
(* or the error thrown.                                                    *)
(***************************************************************************)
MinX(positions) ==
    LET xs == {positions[id].x : id \in DOMAIN positions}
    IN CHOOSE m \in xs : \A x \in xs : m <= x

\* the positions with the left margin taken over the incoming positions too
LayoutPositionsMarginOverInput(nodes) ==
    LET topo == TopoLevels(nodes)
        maxDecisionLevel == maxDecisionLevelOf(nodes, topo.levels)
        terminatorY == (maxDecisionLevel + 1) * LEVEL_HEIGHT + PADDING_Y
        p4 == PlaceTerminators(terminatorNodesOf(nodes), 1, terminatorY, <<>>)
        p5 == PlaceDecisions(Reverse(topo.sortedNodes), nodes, topo, p4)
        p6 == ResolveOverlaps(0, maxDecisionLevel, nodes, topo.levels, p5)
        xs == {p6[id].x : id \in DOMAIN p6}
                  \cup {nodes[i].position.x : i \in DOMAIN nodes}
        minX == CHOOSE m \in xs : \A x \in xs : m <= x
        xOffset == IF minX < PADDING_X * XUnit THEN PADDING_X * XUnit - minX ELSE 0
    IN [id \in DOMAIN p6 |-> NodePosition(p6[id].x + xOffset, p6[id].y)]

LayoutPositions(nodes) ==
    LET topo == TopoLevels(nodes)
        maxDecisionLevel == maxDecisionLevelOf(nodes, topo.levels)
        terminatorY == (maxDecisionLevel + 1) * LEVEL_HEIGHT + PADDING_Y
        p4 == PlaceTerminators(terminatorNodesOf(nodes), 1, terminatorY, <<>>)
        p5 == PlaceDecisions(Reverse(topo.sortedNodes), nodes, topo, p4)
        p6 == ResolveOverlaps(0, maxDecisionLevel, nodes, topo.levels, p5)
        minX == MinX(p6)
        xOffset == IF minX < PADDING_X * XUnit THEN PADDING_X * XUnit - minX ELSE 0
    IN [id \in DOMAIN p6 |-> NodePosition(p6[id].x + xOffset, p6[id].y)]

autoLayout(nodes, startNodeId) ==
    IF Len(nodes) = 0 \/ ~HasNode(nodes, startNodeId)
    THEN [error |-> "", nodes |-> nodes]
    ELSE IF HasCycle(nodes)
    THEN [error |-> CycleMessage, nodes |-> <<>>]
    ELSE LET positions == LayoutPositions(nodes)
         IN [error |-> "",
             nodes |-> [i \in DOMAIN nodes |->
                 IF nodes[i].id \in DOMAIN positions
                 THEN [nodes[i] EXCEPT !.position = positions[nodes[i].id]]
                 ELSE [nodes[i] EXCEPT !.position =
                          NodePosition(PADDING_X * XUnit, PADDING_Y)]]]

(***************************************************************************)
(* autoLayout as a function: the graphs it is applied to.                  *)
(*                                                                         *)
(* A graph has up to MaxLayoutNodes nodes of distinct ids and up to        *)
(* MaxEdges non-empty path references, each to a node of the graph         *)
(* (itself included) or to "zz", which names no node.                      *)
(***************************************************************************)
LayoutIdSeq == <<"a", "b", "c", "d", "e", "f">>

\* what a node of such a graph is: a terminator, or a decision with its paths
NodeKinds(targets) ==
    {<<"terminator", "", "">>}
    \cup {<<"decision", p, q>> : p \in targets \cup {""}, q \in targets \cup {""}}

RECURSIVE EdgeCount(_, _)
\* the number of non-empty path references of the first i nodes
EdgeCount(kinds, i) ==
    IF i = 0 THEN 0
    ELSE EdgeCount(kinds, i - 1) + (IF kinds[i][2] = "" THEN 0 ELSE 1)
                                 + (IF kinds[i][3] = "" THEN 0 ELSE 1)

\* the incoming positions are distinct and are no position autoLayout assigns
GraphOf(kinds) ==
    [i \in DOMAIN kinds |->
        FlowNode(LayoutIdSeq[i], kinds[i][1],
                 NodePosition(i * 40 * XUnit, 900 - 10 * i),
                 IF kinds[i][1] = "decision"
                 THEN DecisionNodeData("true", kinds[i][2], kinds[i][3])
                 ELSE TerminatorNodeData("out"))]

VARIABLES
    layoutNodes,      \* the nodes argument of a call of autoLayout
    layoutStart,      \* its startNodeId argument
    layoutResult      \* what the call returned or threw

layoutVars == <<layoutNodes, layoutStart, layoutResult>>

NoResult == [error |-> "none", nodes |-> <<>>]

LayoutInit ==
    /\ \E n \in 1..MaxLayoutNodes :
         \E kinds \in [1..n -> NodeKinds({LayoutIdSeq[k] : k \in 1..n} \cup {"zz"})] :
            /\ EdgeCount(kinds, n) <= MaxEdges
            /\ layoutNodes = GraphOf(kinds)
    /\ layoutStart \in {layoutNodes[1].id}
                       \cup (IF Targets(layoutNodes, 1) = {} THEN {"zz"} ELSE {})
    /\ layoutResult = NoResult


(***************************************************************************)
(* Properties of autoLayout.                                               *)
(***************************************************************************)
\* the decision edges that resolve to a node of the graph
ResolvedEdges(nodes) ==
    UNION {{<<nodes[i].id, t>> : t \in Targets(nodes, i)} : i \in DOMAIN nodes}

RECURSIVE ReachableWithin(_, _, _)
\* reach[u]: the nodes a path of 1..2^k edges leads to from u
ReachableWithin(reach, k, n) ==
    IF k >= n THEN reach
    ELSE ReachableWithin(
            [u \in DOMAIN reach |->
                reach[u] \cup UNION {reach[v] : v \in reach[u]}], 2 * k, n)

Reachable(nodes) ==
    ReachableWithin(
        [u \in NodeIds(nodes) |->
            UNION {Targets(nodes, i) : i \in {j \in DOMAIN nodes : nodes[j].id = u}}],
        1, Len(nodes))

GraphHasCycle(nodes) ==
    LET reach == Reachable(nodes) IN \E id \in DOMAIN reach : id \in reach[id]

HasSelfLoop(nodes) ==
    \E i \in DOMAIN nodes : nodes[i].id \in Targets(nodes, i)

LayoutRan == layoutResult # NoResult /\ HasNode(layoutNodes, layoutStart)

LayoutSucceeded == LayoutRan /\ layoutResult.error = ""

C9_WitnessSelfLoop ==
    LayoutRan /\ layoutResult.error = CycleMessage /\ HasSelfLoop(layoutNodes)

RowsSpaced(ns) ==
    \A i, j \in DOMAIN ns :
        (i # j /\ ns[i].position.y = ns[j].position.y
               /\ ns[i].position.x <= ns[j].position.x)
        => ns[j].position.x - ns[i].position.x >= desiredSpacing

\* on graphs of pairwise distinct ids a successful autoLayout spaces the rows
NoOverlapDistinctIds == LayoutSucceeded => RowsSpaced(layoutResult.nodes)

\* two decision nodes of one level that share their only child, so that both
\* were first centred on the same x and the overlap pass moved one of them
NoOverlapDistinctIdsWitness ==
    /\ LayoutSucceeded
    /\ \E i, j \in DOMAIN layoutNodes :
          /\ i # j
          /\ layoutNodes[i].type = "decision"
          /\ layoutNodes[j].type = "decision"
          /\ Targets(layoutNodes, i) = Targets(layoutNodes, j)
          /\ Cardinality(Targets(layoutNodes, i)) = 1
          /\ layoutResult.nodes[i].position.y = layoutResult.nodes[j].position.y
          /\ layoutResult.nodes[j].position.x - layoutResult.nodes[i].position.x
                = desiredSpacing

(***************************************************************************)
(* Strings with characters the code looks at.  A string is spelled as a    *)
(* sequence of chunks; a blank, a percent sign and a hexadecimal digit are *)
(* chunks of their own, any other run of characters is one chunk.          *)
(***************************************************************************)
Spelling ==
    [s \in {" ", "a%41", "aA", "50%"} |->
        CASE s = " " -> <<" ">>
          [] s = "a%41" -> <<"a", "%", "4", "1">>
          [] s = "aA" -> <<"a", "A">>
          [] s = "50%" -> <<"50", "%">>]

Spell(s) ==
    IF s = "" THEN <<>> ELSE IF s \in DOMAIN Spelling THEN Spelling[s] ELSE <<s>>

Unspell(chunks) ==
    IF chunks = <<>> THEN ""
    ELSE IF Len(chunks) = 1 THEN chunks[1]
    ELSE CHOOSE s \in DOMAIN Spelling : Spelling[s] = chunks

RECURSIVE TrimStart(_)
TrimStart(chunks) ==
    IF chunks # <<>> /\ Head(chunks) = " " THEN TrimStart(Tail(chunks)) ELSE chunks

\* String.prototype.trim
Trim(s) == Unspell(Reverse(TrimStart(Reverse(TrimStart(Spell(s))))))


(***************************************************************************)
(* JavaScript values, as far as the codec tells them apart.                *)
(***************************************************************************)
Undef == [t |-> "undefined"]

NullV == [t |-> "null"]

Str(s) == [t |-> "string", v |-> s]

Num(n) == [t |-> "number", n |-> n]

List(items) == [t |-> "array", v |-> items]

\* a plain object: its own properties, in order
Map(pairs) == [t |-> "object", v |-> pairs]

\* an object the codec carries without looking into it (a terminator output)
Opaque(name) == [t |-> "opaque", v |-> name]

\* an entry of the inputs list
InputValue(name, type) == [t |-> "input", name |-> name, type |-> type]

\* instances of the helper classes DecisionFlowData and TerminatorFlowData
DecisionFlowData(condition, negativePath, positivePath) ==
    [t |-> "DecisionFlowData", condition |-> condition,
     negativePath |-> negativePath, positivePath |-> positivePath]

TerminatorFlowData(output) == [t |-> "TerminatorFlowData", output |-> output]

YAMLException == [t |-> "YAMLException"]

TypeOf(v) ==
    CASE v.t = "undefined" -> "undefined"
      [] v.t = "string" -> "string"
      [] v.t = "number" -> "number"
      [] OTHER -> "object"

Truthy(v) ==
    CASE v.t \in {"undefined", "null"} -> FALSE
      [] v.t = "string" -> v.v # ""
      [] v.t = "number" -> v.n # 0
      [] OTHER -> TRUE

\* a || b
Or(a, b) == IF Truthy(a) THEN a ELSE b

HasKey(pairs, key) == \E i \in DOMAIN pairs : pairs[i].key = key

\* obj[key]
Get(obj, key) ==
    IF obj.t = "object" /\ HasKey(obj.v, key)
    THEN obj.v[CHOOSE i \in DOMAIN obj.v : obj.v[i].key = key].val
    ELSE IF obj.t \in {"DecisionFlowData", "TerminatorFlowData"} /\ key \in DOMAIN obj
    THEN obj[key]
    ELSE Undef

\* key in obj
In(key, obj) ==
    \/ obj.t = "object" /\ HasKey(obj.v, key)
    \/ obj.t \in {"DecisionFlowData", "TerminatorFlowData"} /\ key \in DOMAIN obj \ {"t"}

\* obj[key] = val: a new property goes last, an old one keeps its place
SetKey(pairs, key, val) ==
    IF HasKey(pairs, key)
    THEN [i \in DOMAIN pairs |->
             IF pairs[i].key = key THEN [key |-> key, val |-> val] ELSE pairs[i]]
    ELSE Append(pairs, [key |-> key, val |-> val])

\* a terminator output as a JavaScript value: "{}" names the empty object
ToJs(output) == IF output = "{}" THEN Map(<<>>) ELSE Opaque(output)

\* a value of the graph read back from a JavaScript value
FromJs(v) ==
    CASE v.t \in {"string", "opaque"} -> v.v
      [] v.t = "object" /\ v.v = <<>> -> "{}"
      [] v.t = "input" -> [name |-> v.name, type |-> v.type]
      [] v.t = "array" -> [i \in DOMAIN v.v |->
                              IF v.v[i].t = "input"
                              THEN [name |-> v.v[i].name, type |-> v.v[i].type]
                              ELSE v.v[i]]
      [] OTHER -> v

(***************************************************************************)
(* decodeURI.  "%" followed by two hexadecimal digits is replaced by the   *)
(* character of that code; "%" followed by anything else is an error.      *)
(***************************************************************************)
HexDigits == {"0", "1", "2", "3", "4", "5", "6", "7", "8", "9",
              "A", "B", "C", "D", "E", "F"}

\* the character of a code below 0x80 that decodeURI does not keep escaped
CharOfCode(hi, lo) ==
    CASE hi = "4" /\ lo = "1" -> "A"
      [] hi = "4" /\ lo = "2" -> "B"
      [] hi = "2" /\ lo = "0" -> " "
      [] OTHER -> "?"

URIError == <<"URIError">>

RECURSIVE DecodeChunks(_)
DecodeChunks(chunks) ==
    IF chunks = <<>> THEN <<>>
    ELSE IF Head(chunks) # "%"
    THEN LET rest == DecodeChunks(Tail(chunks))
         IN IF rest = URIError THEN URIError ELSE <<Head(chunks)>> \o rest
    ELSE IF Len(chunks) >= 3 /\ chunks[2] \in HexDigits /\ chunks[3] \in HexDigits
    THEN LET rest == DecodeChunks(SubSeq(chunks, 4, Len(chunks)))
         IN IF rest = URIError THEN URIError
            ELSE <<CharOfCode(chunks[2], chunks[3])>> \o rest
    ELSE URIError

\* decodeURI on one string of the text
DecodeFails(s) == DecodeChunks(Spell(s)) = URIError

decodeURI(s) == Unspell(DecodeChunks(Spell(s)))

(***************************************************************************)
(* YAML text.  A text is a sequence of lines; a line holds its depth, what *)
(* it is (a key of a mapping, an item of a list, or a lone scalar), its    *)
(* key, its tag and its value, NoVal when the value is the block below it. *)
(* Strings stand in it unquoted: quoting is js-yaml's own business and it  *)
(* reads back what it wrote.                                               *)
(***************************************************************************)
NoVal == [t |-> "none"]

EmptyMap == [t |-> "flow", v |-> "{}"]

TaggedEmptyMap == [t |-> "flow", v |-> "!!map {}"]

EmptyList == [t |-> "flow", v |-> "[]"]

Line(ind, kind, key, tag, val) ==
    [ind |-> ind, kind |-> kind, key |-> key, tag |-> tag, val |-> val]

KeyLine(ind, key, tag, val) == Line(ind, "key", key, tag, val)

ItemLine(ind, val) == Line(ind, "item", "", "", val)

(***************************************************************************)
(* generateYaml.                                                           *)
(***************************************************************************)
\* the sortKeys option given to yaml.dump
sortKeys(a, b) ==
    LET order == <<"condition", "negativePath", "positivePath", "output">>
        indexA == IndexOf(order, a)
        indexB == IndexOf(order, b)
    IN IF indexA # -1 /\ indexB # -1 THEN indexA - indexB
       ELSE IF indexA # -1 THEN -1
       ELSE IF indexB # -1 THEN 1
       ELSE localeCompare(a, b)

RECURSIVE InsertPair(_, _)
InsertPair(sorted, e) ==
    IF sorted = <<>> THEN <<e>>
    ELSE IF sortKeys(Head(sorted).key, e.key) <= 0
         THEN <<Head(sorted)>> \o InsertPair(Tail(sorted), e)
         ELSE <<e>> \o sorted

RECURSIVE SortPairs(_)
\* objectKeyList.sort(state.sortKeys) of js-yaml's dumper
SortPairs(pairs) ==
    IF pairs = <<>> THEN <<>>
    ELSE InsertPair(SortPairs(SubSeq(pairs, 1, Len(pairs) - 1)), pairs[Len(pairs)])

\* [...nodes].sort((a, b) => a.id.localeCompare(b.id))
sortedNodesOf(nodes) ==
    LET keyed == [i \in DOMAIN nodes |-> [key |-> Rank(nodes[i].id), val |-> nodes[i]]]
        sorted == StableSort(keyed)
    IN [i \in DOMAIN sorted |-> sorted[i].val]

\* variant: both paths are always written
NodePayloadAllFields(node) ==
    IF node.type = "decision"
    THEN DecisionFlowData(Str(node.data.condition),
                          Str(node.data.negativePath),
                          Str(node.data.positivePath))
    ELSE TerminatorFlowData(ToJs(node.data.output))

\* what generateYaml stores under a node's id
NodePayload(node) ==
    IF node.type = "decision"
    THEN DecisionFlowData(
            Str(node.data.condition),
            IF node.data.negativePath # "" THEN Str(node.data.negativePath) ELSE Undef,
            IF node.data.positivePath # "" THEN Str(node.data.positivePath) ELSE Undef)
    ELSE TerminatorFlowData(ToJs(node.data.output))

RECURSIVE NodesObject(_, _)
\* sortedNodes.forEach(node => yamlObject.nodes[node.id] = ...)
NodesObject(sortedNodes, obj) ==
    IF sortedNodes = <<>> THEN obj
    ELSE NodesObject(Tail(sortedNodes),
                     SetKey(obj, Head(sortedNodes).id, NodePayload(Head(sortedNodes))))

yamlObjectOf(nodes, inputs, startNodeId) ==
    Map(<< [key |-> "inputs",
            val |-> List([i \in DOMAIN inputs |->
                             InputValue(inputs[i].name, inputs[i].type)])],
           [key |-> "startNode", val |-> Str(startNodeId)],
           [key |-> "nodes", val |-> Map(NodesObject(sortedNodesOf(nodes), <<>>))] >>)

\* the represent function of the two YAML types: the mapping written for an
\* instance
Represent(inst) ==
    IF inst.t = "DecisionFlowData"
    THEN << [key |-> "condition", val |-> inst.condition],
            [key |-> "negativePath", val |-> inst.negativePath],
            [key |-> "positivePath", val |-> inst.positivePath] >>
    ELSE << [key |-> "output", val |-> inst.output] >>

TagOf(v) ==
    CASE v.t = "DecisionFlowData" -> "!decision"
      [] v.t = "TerminatorFlowData" -> "!terminator"
      [] OTHER -> ""

RECURSIVE DumpPairs(_, _)
RECURSIVE DumpItems(_, _)
\* yaml.dump of the pairs of a mapping, keys sorted; a pair whose value is
\* undefined is left out
DumpPairs(pairs, ind) ==
    IF pairs = <<>> THEN <<>>
    ELSE LET key == Head(pairs).key
             v == Head(pairs).val
             rest == DumpPairs(Tail(pairs), ind)
         IN CASE v.t = "undefined" -> rest
              [] v.t \in {"DecisionFlowData", "TerminatorFlowData"} ->
                   <<KeyLine(ind, key, TagOf(v), NoVal)>>
                   \o DumpPairs(SortPairs(Represent(v)), ind + 1) \o rest
              [] v.t = "object" ->
                   (IF v.v = <<>> THEN <<KeyLine(ind, key, "", EmptyMap)>>
                    ELSE <<KeyLine(ind, key, "", NoVal)>>
                         \o DumpPairs(SortPairs(v.v), ind + 1)) \o rest
              [] v.t = "array" ->
                   (IF v.v = <<>> THEN <<KeyLine(ind, key, "", EmptyList)>>
                    ELSE <<KeyLine(ind, key, "", NoVal)>>
                         \o DumpItems(v.v, ind + 1)) \o rest
              [] OTHER -> <<KeyLine(ind, key, "", v)>> \o rest

DumpItems(items, ind) ==
    IF items = <<>> THEN <<>>
    ELSE <<ItemLine(ind, Head(items))>> \o DumpItems(Tail(items), ind)

\* yaml.dump(yamlObject, {schema, noRefs, sortKeys})
yamlDump(obj) == DumpPairs(SortPairs(obj.v), 0)

\* the strings of a line, where text is searched and decoded
LineMentions(line, what) ==
    \/ what \in Range(Spell(line.key))
    \/ line.val.t \in {"string", "opaque"} /\ what \in Range(Spell(line.val.v))
    \/ line.val.t = "input" /\ (\/ what \in Range(Spell(line.val.name))
                                \/ what \in Range(Spell(line.val.type)))

ReplaceChunk(str, what, with) ==
    Unspell([i \in DOMAIN Spell(str) |->
                IF Spell(str)[i] = what THEN with ELSE Spell(str)[i]])

\* yamlString.replace("nodes: {}", "nodes: !!map {}"): the first occurrence,
\* be it the empty nodes mapping or the same characters inside a string
ReplaceEmptyNodes(text) ==
    LET hit(i) == \/ text[i].key = "nodes" /\ text[i].val = EmptyMap
                  \/ LineMentions(text[i], "nodes: {}")
        hits == {i \in DOMAIN text : hit(i)}
    IN IF hits = {} THEN text
       ELSE LET k == CHOOSE i \in hits : \A j \in hits : i <= j
                l == text[k]
                new == IF "nodes: {}" \in Range(Spell(l.key))
                       THEN [l EXCEPT !.key = ReplaceChunk(@, "nodes: {}", "nodes: !!map {}")]
                       ELSE IF l.key = "nodes" /\ l.val = EmptyMap
                       THEN [l EXCEPT !.val = TaggedEmptyMap]
                       ELSE IF l.val.t = "input"
                       THEN IF "nodes: {}" \in Range(Spell(l.val.name))
                            THEN [l EXCEPT !.val.name =
                                     ReplaceChunk(@, "nodes: {}", "nodes: !!map {}")]
                            ELSE [l EXCEPT !.val.type =
                                     ReplaceChunk(@, "nodes: {}", "nodes: !!map {}")]
                       ELSE [l EXCEPT !.val.v =
                                ReplaceChunk(@, "nodes: {}", "nodes: !!map {}")]
            IN [text EXCEPT ![k] = new]

LineDecodeFails(line) ==
    \/ DecodeFails(line.key)
    \/ line.val.t \in {"string", "opaque"} /\ DecodeFails(line.val.v)
    \/ line.val.t = "input" /\ (DecodeFails(line.val.name) \/ DecodeFails(line.val.type))

DecodeLine(line) ==
    [line EXCEPT
        !.key = decodeURI(@),
        !.val = CASE @.t \in {"string", "opaque"} -> [@ EXCEPT !.v = decodeURI(@)]
                  [] @.t = "input" -> [@ EXCEPT !.name = decodeURI(@),
                                                !.type = decodeURI(@)]
                  [] OTHER -> @]

\* the function: the text returned, or the error thrown
generateYaml(nodes, inputs, startNodeId) ==
    LET yamlString == ReplaceEmptyNodes(yamlDump(yamlObjectOf(nodes, inputs, startNodeId)))
    IN IF \E i \in DOMAIN yamlString : LineDecodeFails(yamlString[i])
       THEN [error |-> "URIError: URI malformed", text |-> <<>>]
       ELSE [error |-> "",
             text |-> [i \in DOMAIN yamlString |-> DecodeLine(yamlString[i])]]

(***************************************************************************)
(* yaml.load with FLOW_SCHEMA.                                             *)
(***************************************************************************)
RECURSIVE BlockLen(_, _)
\* the number of leading lines deeper than ind: the block below a line
BlockLen(lines, ind) ==
    IF lines = <<>> \/ Head(lines).ind <= ind THEN 0
    ELSE 1 + BlockLen(Tail(lines), ind)

\* the construct function of the !decision type
ConstructDecision(data) ==
    LET d == Or(data, Map(<<>>))
    IN DecisionFlowData(Or(Get(d, "condition"), Str("")),
                        Or(Get(d, "negativePath"), Str("")),
                        Or(Get(d, "positivePath"), Str("")))

\* the construct function of the !terminator type
ConstructTerminator(data) ==
    LET d == Or(data, Map(<<>>))
    IN TerminatorFlowData(Or(Get(d, "output"), Map(<<>>)))

\* a tag is applied to the node read: both types are of kind mapping, and
\* an empty node (null) is constructed whatever the kind of the type
ApplyTag(tag, v) ==
    CASE v.t = "YAMLException" -> v
      [] tag = "" -> v
      [] tag = "!decision" -> IF v.t \in {"object", "null"}
                              THEN ConstructDecision(v)
                              ELSE YAMLException
      [] tag = "!terminator" -> IF v.t \in {"object", "null"}
                                THEN ConstructTerminator(v)
                                ELSE YAMLException
      [] OTHER -> YAMLException

RECURSIVE LoadMapping(_)
RECURSIVE LoadItems(_)
RECURSIVE LoadNode(_, _)
\* the value of a key line or of an item line, and the block below it
LoadNode(line, block) ==
    ApplyTag(line.tag,
        CASE line.val # NoVal /\ block # <<>> -> YAMLException
          [] line.val = NoVal ->
                 IF block = <<>> THEN NullV
                 ELSE IF Head(block).kind = "item" THEN LoadItems(block)
                 ELSE LoadMapping(block)
          [] line.val \in {EmptyMap, TaggedEmptyMap} -> Map(<<>>)
          [] line.val = EmptyList -> List(<<>>)
          [] OTHER -> line.val)

\* a block sequence
LoadItems(lines) ==
    IF lines = <<>> THEN List(<<>>)
    ELSE LET line == Head(lines)
             n == BlockLen(Tail(lines), line.ind)
             v == LoadNode(line, SubSeq(lines, 2, n + 1))
             more == LoadItems(SubSeq(lines, n + 2, Len(lines)))
         IN IF line.kind # "item" \/ v.t = "YAMLException" \/ more.t = "YAMLException"
            THEN YAMLException
            ELSE List(<<v>> \o more.v)

\* a block mapping; a key met twice is an error
LoadMapping(lines) ==
    IF lines = <<>> THEN Map(<<>>)
    ELSE LET line == Head(lines)
             n == BlockLen(Tail(lines), line.ind)
             v == LoadNode(line, SubSeq(lines, 2, n + 1))
             more == LoadMapping(SubSeq(lines, n + 2, Len(lines)))
         IN IF line.kind # "key" \/ v.t = "YAMLException" \/ more.t = "YAMLException"
            THEN YAMLException
            ELSE IF HasKey(more.v, line.key) THEN YAMLException
            ELSE Map(<<[key |-> line.key, val |-> v]>> \o more.v)

yamlLoad(text) ==
    IF text = <<>> THEN Undef
    ELSE IF Head(text).kind = "scalar" THEN Head(text).val
    ELSE IF Head(text).kind = "item" THEN LoadItems(text)
    ELSE LoadMapping(text)

(***************************************************************************)
(* parseYaml.                                                              *)
(***************************************************************************)
\* keys that are array indices, which for...in visits first, ascending
IndexKeys == <<"0", "1", "2">>

\* the own enumerable properties of a value, in the order of for...in
EntriesOf(v) ==
    CASE v.t = "object" ->
             LET indexPairs == SelectSeq(
                     [k \in DOMAIN IndexKeys |-> [key |-> IndexKeys[k],
                                                  val |-> Get(v, IndexKeys[k])]],
                     LAMBDA e : HasKey(v.v, e.key))
             IN indexPairs \o SelectSeq(v.v, LAMBDA e : e.key \notin Range(IndexKeys))
      [] v.t = "array" ->
             [i \in DOMAIN v.v |-> [key |-> ToString(i - 1), val |-> v.v[i]]]
      [] v.t = "DecisionFlowData" ->
             << [key |-> "condition", val |-> v.condition],
                [key |-> "negativePath", val |-> v.negativePath],
                [key |-> "positivePath", val |-> v.positivePath] >>
      [] v.t = "TerminatorFlowData" -> << [key |-> "output", val |-> v.output] >>
      [] v.t = "input" -> << [key |-> "name", val |-> Str(v.name)],
                             [key |-> "type", val |-> Str(v.type)] >>
      [] OTHER -> <<>>

\* the untagged fallback asking for `output` before `condition`
NodeOfEntryOutputFirst(nodeId, nodeData) ==
    IF nodeData.t = "object" /\ In("output", nodeData)
    THEN Some(FlowNode(nodeId, "terminator", NodePosition(0, 0),
                 TerminatorNodeData(FromJs(Or(Get(nodeData, "output"), Map(<<>>))))))
    ELSE IF nodeData.t = "object" /\ In("condition", nodeData)
    THEN Some(FlowNode(nodeId, "decision", NodePosition(0, 0),
                 DecisionNodeData(FromJs(Or(Get(nodeData, "condition"), Str(""))),
                                  FromJs(Or(Get(nodeData, "positivePath"), Str(""))),
                                  FromJs(Or(Get(nodeData, "negativePath"), Str(""))))))
    ELSE Null

\* the body of the loop of parseYaml: the node made of one entry, or no node
NodeOfEntry(nodeId, nodeData) ==
    CASE nodeData.t = "DecisionFlowData" ->
             Some(FlowNode(nodeId, "decision", NodePosition(0, 0),
                      DecisionNodeData(FromJs(nodeData.condition),
                                       FromJs(nodeData.positivePath),
                                       FromJs(nodeData.negativePath))))
      [] nodeData.t = "TerminatorFlowData" ->
             Some(FlowNode(nodeId, "terminator", NodePosition(0, 0),
                      TerminatorNodeData(FromJs(nodeData.output))))
      [] nodeData.t \notin {"DecisionFlowData", "TerminatorFlowData"}
         /\ Truthy(nodeData) /\ TypeOf(nodeData) = "object" ->
             IF In("condition", nodeData)
             THEN Some(FlowNode(nodeId, "decision", NodePosition(0, 0),
                          DecisionNodeData(
                              FromJs(Or(Get(nodeData, "condition"), Str(""))),
                              FromJs(Or(Get(nodeData, "positivePath"), Str(""))),
                              FromJs(Or(Get(nodeData, "negativePath"), Str(""))))))
             ELSE IF In("output", nodeData)
             THEN Some(FlowNode(nodeId, "terminator", NodePosition(0, 0),
                          TerminatorNodeData(
                              FromJs(Or(Get(nodeData, "output"), Map(<<>>))))))
             ELSE Null
      [] OTHER -> Null

\* `Invalid or unknown node type for node ID: ${nodeId}`
UnknownTypeMessage(nodeId) ==
    "Invalid or unknown node type for node ID: " \o nodeId

ParseFailed(message) ==
    [error |-> message, nodes |-> <<>>, inputs |-> <<>>, startNodeId |-> ""]

\* parseYaml looking at nodes before it looks at startNode
parseYamlNodesFirst(yamlString) ==
    LET parsed == yamlLoad(yamlString)
        startNode == Get(parsed, "startNode")
        parsedNodes == Get(parsed, "nodes")
        entries == EntriesOf(parsedNodes)
        made == [i \in DOMAIN entries |-> NodeOfEntry(entries[i].key, entries[i].val)]
    IN IF parsed.t = "YAMLException" THEN ParseFailed("YAMLException")
       ELSE IF ~Truthy(parsed) \/ TypeOf(parsed) # "object"
       THEN ParseFailed("Invalid YAML format: root should be an object.")
       ELSE IF parsedNodes.t \in {"undefined", "null"} \/ TypeOf(parsedNodes) # "object"
       THEN ParseFailed("Invalid YAML format: missing or invalid nodes map.")
       ELSE IF ~Truthy(startNode) \/ TypeOf(startNode) # "string"
       THEN ParseFailed("Invalid YAML format: missing or invalid startNode.")
       ELSE IF \E i \in DOMAIN made : made[i] = Null
       THEN ParseFailed(UnknownTypeMessage(entries[
                CHOOSE i \in DOMAIN made :
                    made[i] = Null /\ \A j \in 1..(i - 1) : made[j] # Null].key))
       ELSE [error |-> "",
             nodes |-> [i \in DOMAIN made |-> made[i][1]],
             inputs |-> FromJs(Or(Get(parsed, "inputs"), List(<<>>))),
             startNodeId |-> startNode.v]

\* the function: the graph returned, or the error thrown
parseYaml(yamlString) ==
    LET parsed == yamlLoad(yamlString)
        startNode == Get(parsed, "startNode")
        parsedNodes == Get(parsed, "nodes")
        entries == EntriesOf(parsedNodes)
        made == [i \in DOMAIN entries |-> NodeOfEntry(entries[i].key, entries[i].val)]
    IN IF parsed.t = "YAMLException" THEN ParseFailed("YAMLException")
       ELSE IF ~Truthy(parsed) \/ TypeOf(parsed) # "object"
       THEN ParseFailed("Invalid YAML format: root should be an object.")
       ELSE IF ~Truthy(startNode) \/ TypeOf(startNode) # "string"
       THEN ParseFailed("Invalid YAML format: missing or invalid startNode.")
       ELSE IF parsedNodes.t \in {"undefined", "null"} \/ TypeOf(parsedNodes) # "object"
       THEN ParseFailed("Invalid YAML format: missing or invalid nodes map.")
       ELSE IF \E i \in DOMAIN made : made[i] = Null
       THEN LET bad == CHOOSE i \in DOMAIN made :
                           made[i] = Null /\ \A j \in 1..(i - 1) : made[j] # Null
            IN ParseFailed(UnknownTypeMessage(entries[bad].key))
       ELSE [error |-> "",
             nodes |-> [i \in DOMAIN made |-> made[i][1]],
             inputs |-> FromJs(Or(Get(parsed, "inputs"), List(<<>>))),
             startNodeId |-> startNode.v]

(***************************************************************************)
(* The editor (app/page.tsx, the last version of the component).           *)
(***************************************************************************)
INITIAL_INPUTS ==
    << [name |-> "isLoyalCustomer", type |-> "Boolean"],
       [name |-> "purchaseAmount", type |-> "Double"] >>

INITIAL_START_NODE_ID == "loyaltyCheck"

INITIAL_NODES ==
    << FlowNode("loyaltyCheck", "decision", NodePosition(350 * XUnit, 50),
           DecisionNodeData("input.isLoyalCustomer == true",
                            "highPurchaseCheck", "noDiscount")),
       FlowNode("highPurchaseCheck", "decision", NodePosition(550 * XUnit, 250),
           DecisionNodeData("input.purchaseAmount > 100.0",
                            "highDiscount", "standardDiscount")),
       FlowNode("noDiscount", "terminator", NodePosition(150 * XUnit, 250),
           TerminatorNodeData("{discountPercentage: 0}")),
       FlowNode("highDiscount", "terminator", NodePosition(650 * XUnit, 450),
           TerminatorNodeData("{discountPercentage: 20}")),
       FlowNode("standardDiscount", "terminator", NodePosition(450 * XUnit, 450),
           TerminatorNodeData("{discountPercentage: 10}")) >>

(***************************************************************************)
(* The connector router (components/flow/connector-line.tsx, the version   *)
(* with getPath).  Coordinates are pixels; a coordinate may be Infinity,   *)
(* which stays Infinity when something is added to it.                     *)
(***************************************************************************)
Infinity == 100000

Plus(a, b) == IF a >= Infinity THEN Infinity ELSE a + b

NODE_WIDTH_ROUTER == 200
NODE_HEIGHT_DECISION == 100
NODE_HEIGHT_TERMINATOR == 80
PADDING_Y_ROUTER == 20

getNodeBoundingBox(node) ==
    LET height == IF node.type = "decision" THEN NODE_HEIGHT_DECISION
                  ELSE NODE_HEIGHT_TERMINATOR
    IN [id |-> node.id,
        x1 |-> node.position.x,
        y1 |-> node.position.y,
        x2 |-> Plus(node.position.x, NODE_WIDTH_ROUTER),
        y2 |-> Plus(node.position.y, height)]

\* allNodes.filter(n => n.id !== sourceId && n.id !== targetId).map(...)
obstaclesOf(allNodes, sourceId, targetId) ==
    LET others == SelectSeq(allNodes, LAMBDA n : n.id # sourceId /\ n.id # targetId)
    IN [i \in DOMAIN others |-> getNodeBoundingBox(others[i])]

\* the obstacles the horizontal segment at midY runs into
collidingObstaclesOf(obstacles, xMin, xMax, midY) ==
    SelectSeq(obstacles,
              LAMBDA obs : /\ xMin < obs.x2 /\ xMax > obs.x1
                           /\ midY >= obs.y1 /\ midY <= obs.y2)

RECURSIVE lowestObstacleOf(_)
\* colliding.reduce((prev, curr) => (prev.y2 > curr.y2 ? prev : curr))
lowestObstacleOf(colliding) ==
    IF Len(colliding) = 1 THEN colliding[1]
    ELSE LET prev == lowestObstacleOf(SubSeq(colliding, 1, Len(colliding) - 1))
             curr == colliding[Len(colliding)]
         IN IF prev.y2 > curr.y2 THEN prev ELSE curr

\* `M${from.x},${from.y} V${midY} H${to.x} V${to.y}`
PathData(from, midY, to) == [M |-> from, V |-> midY, H |-> to.x, V2 |-> to.y]

RECURSIVE getPathLoop(_, _, _, _, _, _)
\* the while loop of getPath as a function: the height left in midY when the
\* loop ends, n attempts made so far
getPathLoop(obstacles, xMin, xMax, y, n, cap) ==
    IF n >= cap THEN y
    ELSE LET collidingObstacles == collidingObstaclesOf(obstacles, xMin, xMax, y)
         IN IF Len(collidingObstacles) > 0
            THEN getPathLoop(obstacles, xMin, xMax,
                             Plus(lowestObstacleOf(collidingObstacles).y2,
                                  PADDING_Y_ROUTER),
                             n + 1, cap)
            ELSE y

\* the height of the horizontal segment of the path getPath returns
getPath(from, to, allNodes, sourceId, targetId, isPositive) ==
    getPathLoop(obstaclesOf(allNodes, sourceId, targetId),
                Min2(from.x, to.x), Max2(from.x, to.x),
                Plus(from.y, IF isPositive THEN 60 ELSE 40),
                0, Len(allNodes) + 5)

VARIABLES
    routerNodes,      \* allNodes
    routerFrom,       \* from
    routerTo,         \* to
    routerEnds,       \* sourceId and targetId
    routerPositive,   \* isPositive
    midY,             \* let midY
    attempts,         \* let attempts
    clearPathFound,   \* let clearPathFound
    routerPath        \* the path returned, once getPath has returned

routerVars ==
    <<routerNodes, routerFrom, routerTo, routerEnds, routerPositive, midY,
      attempts, clearPathFound, routerPath>>

NoPath == [M |-> NodePosition(0, 0), V |-> -1, H |-> -1, V2 |-> -1]

RouterIdle ==
    /\ routerNodes = <<>>
    /\ routerFrom = NodePosition(0, 0)
    /\ routerTo = NodePosition(0, 0)
    /\ routerEnds = [sourceId |-> "", targetId |-> ""]
    /\ routerPositive = FALSE
    /\ midY = 0
    /\ attempts = 0
    /\ clearPathFound = TRUE
    /\ routerPath = PathData(NodePosition(0, 0), 0, NodePosition(0, 0))

RouterXs == {0, 300}

RouterYs == {0, 100, 200, Infinity}

\* a call of getPath, up to the loop
RouterInit ==
    /\ \E n \in 0..MaxRouterNodes :
         \E kinds \in [1..n -> {"decision", "terminator"} \X RouterXs \X RouterYs] :
            routerNodes = [i \in 1..n |->
                              [id |-> LayoutIdSeq[i], type |-> kinds[i][1],
                               position |-> NodePosition(kinds[i][2], kinds[i][3])]]
    /\ routerFrom \in {NodePosition(100, 0), NodePosition(100, Infinity)}
    /\ routerTo \in {NodePosition(100, 300), NodePosition(400, 300)}
    /\ routerEnds \in {[sourceId |-> "a", targetId |-> "b"],
                        [sourceId |-> "zz", targetId |-> "zz"]}
    /\ routerPositive \in BOOLEAN
    /\ midY = Plus(routerFrom.y, IF routerPositive THEN 60 ELSE 40)
    /\ attempts = 0
    /\ clearPathFound = FALSE
    /\ routerPath = NoPath

\* a bound on the attempts that grows with the square of the node count
maxAttemptsSquared == Len(routerNodes) * Len(routerNodes) + 6

maxAttempts == Len(routerNodes) + 5

(***************************************************************************)
(* The variant of autoLayout that assigns levels by a breadth-first search *)
(* from the start node and then repairs them: while some edge leads from a *)
(* node to a node of a lower level, the target is moved down to the level  *)
(* of the source.                                                          *)
(***************************************************************************)
RECURSIVE EnqueueChildren(_, _, _, _)
\* the forEach over the children of the node taken from the queue
EnqueueChildren(children, k, level, st) ==
    IF k > Len(children) THEN st
    ELSE EnqueueChildren(children, k + 1, level,
            IF children[k] \in st.visited THEN st
            ELSE [st EXCEPT !.visited = @ \cup {children[k]},
                            !.queue = Append(@, [id |-> children[k],
                                                 level |-> level + 1])])

RECURSIVE BfsLoop(_, _)
\* while (queue.length > 0)
BfsLoop(nodeMap, st) ==
    IF st.queue = <<>> THEN st
    ELSE LET head == st.queue[1]
             taken == [st EXCEPT !.queue = Tail(@),
                                 !.levels = (head.id :> head.level) @@ @]
             children ==
                 IF head.id \in DOMAIN nodeMap /\ nodeMap[head.id].type = "decision"
                 THEN SelectSeq(<<nodeMap[head.id].data.negativePath,
                                  nodeMap[head.id].data.positivePath>>,
                                LAMBDA id : id # "")
                 ELSE <<>>
         IN BfsLoop(nodeMap, EnqueueChildren(children, 1, head.level, taken))

\* step 1: the levels of the breadth-first search, 0 for the nodes it did
\* not visit
bfsLevels(nodes, startNodeId) ==
    LET st == BfsLoop(nodeMapOf(nodes),
                      [queue |-> <<[id |-> startNodeId, level |-> 0]>>,
                       visited |-> {startNodeId},
                       levels |-> [id \in {} |-> 0]])
    IN [id \in DOMAIN st.levels \cup NodeIds(nodes) |->
           IF id \in st.visited THEN st.levels[id] ELSE 0]

RECURSIVE RelaxEdges(_, _, _, _)
\* the forEach over the resolved targets of u
RelaxEdges(u, vIds, k, st) ==
    IF k > Len(vIds) THEN st
    ELSE RelaxEdges(u, vIds, k + 1,
            IF st.levels[u.id] > st.levels[vIds[k]]
            THEN [levels |-> [st.levels EXCEPT ![vIds[k]] = st.levels[u.id]],
                  changed |-> TRUE]
            ELSE st)

RECURSIVE RelaxNodes(_, _, _)
\* nodes.forEach(u => ...) of one pass of the loop
RelaxNodes(nodes, i, st) ==
    IF i > Len(nodes) THEN st
    ELSE RelaxNodes(nodes, i + 1,
            IF nodes[i].type = "decision"
            THEN RelaxEdges(nodes[i],
                     SelectSeq(<<nodes[i].data.negativePath,
                                 nodes[i].data.positivePath>>,
                               LAMBDA vId : vId # "" /\ HasNode(nodes, vId)),
                     1, st)
            ELSE st)

\* a pass that repairs the levels and does not record that it did
relaxPassForgetsChanged(nodes, levels) ==
    [RelaxNodes(nodes, 1, [levels |-> levels, changed |-> FALSE])
        EXCEPT !.changed = FALSE]

\* the body of while (changed): changed = false, then the pass
relaxPass(nodes, levels) ==
    RelaxNodes(nodes, 1, [levels |-> levels, changed |-> FALSE])

VARIABLES
    levels,           \* const levels = new Map<string, number>()
    changed,          \* let changed
    relaxPc,          \* where the call is: "idle", "loop", "done", "returned"
    passes            \* the number of passes of the loop made so far

relaxVars == <<levels, changed, relaxPc, passes>>

RelaxIdle ==
    /\ levels = [id \in {} |-> 0]
    /\ changed = FALSE
    /\ relaxPc = "idle"
    /\ passes = 0

VARIABLES
    codecGraph,       \* the graph given to generateYaml
    codecText,        \* what generateYaml returned or threw
    codecParsed       \* what parseYaml made of that text

codecVars == <<codecGraph, codecText, codecParsed>>

VARIABLES
    nodes,            \* useState<FlowNode[]>
    inputs,           \* useState<Input[]>
    startNodeId,      \* useState<string>
    selectedNodeId,   \* useState<string | null>
    draggedNode,      \* useState<{id, startPos, startMouse} | null>, its id
    isPanning,        \* useState(false)
    didPan,           \* useRef(false)
    now,              \* the value Date.now() returns
    toast,            \* the title of the last toast shown
    lastCall,         \* the last handler called, with its arguments
    steps,            \* the number of events handled so far
    pendingValidations \* the yamlCode of the validateFlowchart calls awaited

editorVars ==
    <<nodes, inputs, startNodeId, selectedNodeId, draggedNode, isPanning,
      didPan, now, toast, lastCall, steps, pendingValidations>>

vars == <<layoutVars, codecVars, editorVars, routerVars, relaxVars>>

\* a call that writes the positions into the node objects it was given, as
\* the first variant of autoLayout did
RunAutoLayoutInPlace ==
    /\ layoutResult = NoResult
    /\ layoutResult' = autoLayout(layoutNodes, layoutStart)
    /\ layoutNodes' = IF layoutResult'.error = "" THEN layoutResult'.nodes
                      ELSE layoutNodes
    /\ UNCHANGED <<layoutStart, codecVars, editorVars, routerVars, relaxVars>>

\* one call autoLayout(nodes, startNodeId)
RunAutoLayout ==
    /\ layoutResult = NoResult
    /\ layoutResult' = autoLayout(layoutNodes, layoutStart)
    /\ UNCHANGED <<layoutNodes, layoutStart, codecVars, editorVars,
                   routerVars, relaxVars>>

LayoutNext == RunAutoLayout

\* one iteration of the while loop of getPath
RouterIterate ==
    /\ routerPath = NoPath
    /\ ~clearPathFound /\ attempts < maxAttempts
    /\ attempts' = attempts + 1
    /\ LET obstacles == obstaclesOf(routerNodes, routerEnds.sourceId,
                                    routerEnds.targetId)
           xMin == Min2(routerFrom.x, routerTo.x)
           xMax == Max2(routerFrom.x, routerTo.x)
           collidingObstacles == collidingObstaclesOf(obstacles, xMin, xMax, midY)
       IN IF Len(collidingObstacles) > 0
          THEN /\ clearPathFound' = FALSE
               /\ midY' = Plus(lowestObstacleOf(collidingObstacles).y2,
                               PADDING_Y_ROUTER)
          ELSE /\ clearPathFound' = TRUE
               /\ UNCHANGED midY
    /\ UNCHANGED <<routerNodes, routerFrom, routerTo, routerEnds, routerPositive,
                   routerPath, layoutVars, codecVars, editorVars, relaxVars>>

\* the loop is left and the path is returned
RouterReturn ==
    /\ routerPath = NoPath
    /\ ~(~clearPathFound /\ attempts < maxAttempts)
    /\ routerPath' = PathData(routerFrom, midY, routerTo)
    /\ UNCHANGED <<routerNodes, routerFrom, routerTo, routerEnds, routerPositive,
                   midY, attempts, clearPathFound, layoutVars, codecVars,
                   editorVars, relaxVars>>

RouterNext == RouterIterate \/ RouterReturn

\* the variant is called: the early return, or step 1 and the loop is entered
RelaxInit ==
    /\ levels = IF HasNode(layoutNodes, layoutStart)
                THEN bfsLevels(layoutNodes, layoutStart)
                ELSE [id \in {} |-> 0]
    /\ changed = TRUE
    /\ relaxPc = IF HasNode(layoutNodes, layoutStart) THEN "loop" ELSE "returned"
    /\ passes = 0

\* one pass of while (changed)
RelaxIterate ==
    /\ relaxPc = "loop" /\ changed
    /\ \E st \in {relaxPass(layoutNodes, levels)} :
          /\ levels' = st.levels
          /\ changed' = st.changed
    /\ passes' = passes + 1
    /\ UNCHANGED <<relaxPc, layoutVars, codecVars, editorVars, routerVars>>

\* the loop is left
RelaxExit ==
    /\ relaxPc = "loop" /\ ~changed
    /\ relaxPc' = "done"
    /\ UNCHANGED <<levels, changed, passes, layoutVars, codecVars, editorVars,
                   routerVars>>

RelaxNext == RelaxIterate \/ RelaxExit

NoCall == [handler |-> "none"]

EditorInit ==
    /\ nodes = INITIAL_NODES
    /\ inputs = INITIAL_INPUTS
    /\ startNodeId = INITIAL_START_NODE_ID
    /\ selectedNodeId = Null
    /\ draggedNode = Null
    /\ isPanning = FALSE
    /\ didPan = FALSE
    /\ now = 1
    /\ toast = ""
    /\ lastCall = NoCall
    /\ steps = 0
    /\ pendingValidations = <<>>

\* an event is handled: the handler runs to completion
Event(call) ==
    /\ steps < MaxSteps
    /\ steps' = steps + 1
    /\ lastCall' = call
    /\ UNCHANGED <<layoutVars, codecVars, routerVars, relaxVars, pendingValidations>>

\* nodes.find(n => n.id === selectedNodeId)
selectedNode ==
    IF selectedNodeId # Null /\ HasNode(nodes, selectedNodeId[1])
    THEN Some(nodes[CHOOSE i \in DOMAIN nodes :
                       /\ nodes[i].id = selectedNodeId[1]
                       /\ \A j \in DOMAIN nodes :
                             nodes[j].id = selectedNodeId[1] => i <= j])
    ELSE Null

\* the clock advances between two events
Tick ==
    /\ now < MaxClock
    /\ now' = now + 1
    /\ UNCHANGED <<nodes, inputs, startNodeId, selectedNodeId, draggedNode,
                   isPanning, didPan, toast, lastCall, steps, pendingValidations,
                   layoutVars, codecVars,
                   routerVars, relaxVars>>

handleNodeClick(id) ==
    /\ HasNode(nodes, id)
    /\ Event([handler |-> "handleNodeClick", id |-> id])
    /\ selectedNodeId' = Some(id)
    /\ UNCHANGED <<nodes, inputs, startNodeId, draggedNode, isPanning, didPan,
                   now, toast>>

handleNodeDragStart(id) ==
    /\ HasNode(nodes, id)
    /\ Event([handler |-> "handleNodeDragStart", id |-> id])
    /\ draggedNode' = Some(id)
    /\ UNCHANGED <<nodes, inputs, startNodeId, selectedNodeId, isPanning,
                   didPan, now, toast>>

handleCanvasMouseDown ==
    /\ Event([handler |-> "handleCanvasMouseDown"])
    /\ IF draggedNode # Null
       THEN UNCHANGED <<isPanning, didPan>>
       ELSE isPanning' = TRUE /\ didPan' = FALSE
    /\ UNCHANGED <<nodes, inputs, startNodeId, selectedNodeId, draggedNode,
                   now, toast>>

\* the pointer moves: the dragged node follows it, or the canvas is panned
\* (moved: by more than 3 pixels)
handleMouseMove(newPosition, moved) ==
    /\ Event([handler |-> "handleMouseMove"])
    /\ IF draggedNode # Null
       THEN /\ nodes' = [i \in DOMAIN nodes |->
                            IF nodes[i].id = draggedNode[1]
                            THEN [nodes[i] EXCEPT !.position = newPosition]
                            ELSE nodes[i]]
            /\ UNCHANGED didPan
       ELSE /\ didPan' = IF isPanning /\ ~didPan /\ moved THEN TRUE ELSE didPan
            /\ UNCHANGED nodes
    /\ UNCHANGED <<inputs, startNodeId, selectedNodeId, draggedNode, isPanning,
                   now, toast>>

handleMouseUp ==
    /\ Event([handler |-> "handleMouseUp"])
    /\ draggedNode' = Null
    /\ isPanning' = FALSE
    /\ selectedNodeId' = IF isPanning /\ ~didPan THEN Null ELSE selectedNodeId
    /\ UNCHANGED <<nodes, inputs, startNodeId, didPan, now, toast>>

\* `${type}_${Date.now()}`
NewNodeId(type, time) == type \o "_" \o ToString(time)

addNode(type) ==
    /\ Len(nodes) < MaxNodes
    /\ Event([handler |-> "addNode", type |-> type])
    /\ LET newNodeId == NewNodeId(type, now)
           newNode == FlowNode(newNodeId, type, NodePosition(300 * XUnit, 150),
                         IF type = "decision"
                         THEN DecisionNodeData("true", "", "")
                         ELSE TerminatorNodeData("{result: new}"))
       IN /\ nodes' = Append(nodes, newNode)
          /\ selectedNodeId' = Some(newNodeId)
    /\ UNCHANGED <<inputs, startNodeId, draggedNode, isPanning, didPan, now, toast>>

\* the two passes of the setNodes updater of handleNodeSave
RenameNodes(prevNodes, oldId, newId, data) ==
    LET newNodes == [i \in DOMAIN prevNodes |->
                        IF prevNodes[i].id = oldId
                        THEN [prevNodes[i] EXCEPT !.id = newId, !.data = data]
                        ELSE prevNodes[i]]
        rewritten == [i \in DOMAIN newNodes |->
            IF newNodes[i].type = "decision"
            THEN [newNodes[i] EXCEPT
                    !.data.positivePath = IF @ = oldId THEN newId ELSE @,
                    !.data.negativePath = IF @ = oldId THEN newId ELSE @]
            ELSE newNodes[i]]
    IN IF newId # oldId THEN rewritten ELSE newNodes

\* handleNodeSave without its check of an id already in use
handleNodeSaveNoDuplicateCheck(oldId, newId, data) ==
    /\ Event([handler |-> "handleNodeSave", oldId |-> oldId, newId |-> newId,
              data |-> data])
    /\ IF Trim(newId) = ""
       THEN /\ toast' = "Invalid ID"
            /\ UNCHANGED <<nodes, startNodeId, selectedNodeId>>
       ELSE /\ nodes' = RenameNodes(nodes, oldId, newId, data)
            /\ startNodeId' = IF startNodeId = oldId THEN newId ELSE startNodeId
            /\ selectedNodeId' = Some(newId)
            /\ toast' = "Node Updated"
    /\ UNCHANGED <<inputs, draggedNode, isPanning, didPan, now>>

handleNodeSave(oldId, newId, data) ==
    /\ Event([handler |-> "handleNodeSave", oldId |-> oldId, newId |-> newId,
              data |-> data])
    /\ IF Trim(newId) = ""
       THEN /\ toast' = "Invalid ID"
            /\ UNCHANGED <<nodes, startNodeId, selectedNodeId>>
       ELSE IF newId # oldId /\ HasNode(nodes, newId)
       THEN /\ toast' = "ID already in use"
            /\ UNCHANGED <<nodes, startNodeId, selectedNodeId>>
       ELSE /\ nodes' = RenameNodes(nodes, oldId, newId, data)
            /\ startNodeId' = IF startNodeId = oldId THEN newId ELSE startNodeId
            /\ selectedNodeId' = Some(newId)
            /\ toast' = "Node Updated"
    /\ UNCHANGED <<inputs, draggedNode, isPanning, didPan, now>>

\* the setNodes updater of deleteNode
RemoveNode(prev, nodeId) ==
    LET newNodes == SelectSeq(prev, LAMBDA n : n.id # nodeId)
    IN [i \in DOMAIN newNodes |->
           IF newNodes[i].type = "decision"
           THEN [newNodes[i] EXCEPT
                   !.data.positivePath = IF @ = nodeId THEN "" ELSE @,
                   !.data.negativePath = IF @ = nodeId THEN "" ELSE @]
           ELSE newNodes[i]]

\* deleteNode that leaves the selection as it is
deleteNodeKeepsSelection(nodeId) ==
    /\ Event([handler |-> "deleteNode", nodeId |-> nodeId])
    /\ IF nodeId = startNodeId
       THEN /\ toast' = "Cannot delete start node"
            /\ UNCHANGED <<nodes, selectedNodeId>>
       ELSE /\ nodes' = RemoveNode(nodes, nodeId)
            /\ toast' = "Node Deleted"
            /\ UNCHANGED selectedNodeId
    /\ UNCHANGED <<inputs, startNodeId, draggedNode, isPanning, didPan, now>>

\* deleteNode without its refusal of the start node
deleteNodeUnguarded(nodeId) ==
    /\ Event([handler |-> "deleteNode", nodeId |-> nodeId])
    /\ nodes' = RemoveNode(nodes, nodeId)
    /\ selectedNodeId' = Null
    /\ toast' = "Node Deleted"
    /\ UNCHANGED <<inputs, startNodeId, draggedNode, isPanning, didPan, now>>

deleteNode(nodeId) ==
    /\ Event([handler |-> "deleteNode", nodeId |-> nodeId])
    /\ IF nodeId = startNodeId
       THEN /\ toast' = "Cannot delete start node"
            /\ UNCHANGED <<nodes, selectedNodeId>>
       ELSE /\ nodes' = RemoveNode(nodes, nodeId)
            /\ selectedNodeId' = Null
            /\ toast' = "Node Deleted"
    /\ UNCHANGED <<inputs, startNodeId, draggedNode, isPanning, didPan, now>>

handleAutoLayout ==
    /\ Event([handler |-> "handleAutoLayout"])
    /\ LET laidOut == autoLayout(nodes, startNodeId)
       IN IF laidOut.error = ""
          THEN nodes' = laidOut.nodes /\ toast' = "Auto-Layout Complete"
          ELSE UNCHANGED nodes /\ toast' = "Auto-Layout Failed"
    /\ UNCHANGED <<inputs, startNodeId, selectedNodeId, draggedNode, isPanning,
                   didPan, now>>

handleMouseLeave ==
    /\ Event([handler |-> "handleMouseLeave"])
    /\ draggedNode' = Null
    /\ isPanning' = FALSE
    /\ UNCHANGED <<nodes, inputs, startNodeId, selectedNodeId, didPan, now, toast>>

(***************************************************************************)
(* The files handleLoadYaml is given.                                      *)
(***************************************************************************)
DocInputs == << [name |-> "flag", type |-> "Boolean"] >>

DocHead ==
    << KeyLine(0, "inputs", "", NoVal),
       ItemLine(1, InputValue("flag", "Boolean")),
       KeyLine(0, "nodes", "", NoVal),
       KeyLine(1, "a", "!decision", NoVal),
       KeyLine(2, "condition", "", Str("true")),
       KeyLine(2, "positivePath", "", Str("b")) >>

TerminatorLines(id) ==
    << KeyLine(1, id, "!terminator", NoVal), KeyLine(2, "output", "", EmptyMap) >>

StartLine(id) == <<KeyLine(0, "startNode", "", Str(id))>>

\* a flowchart as generateYaml writes it: a decision a leading to a
\* terminator b
GoodDoc == DocHead \o TerminatorLines("b") \o StartLine("a")

\* the same with b a decision that leads back to a
CycleDoc ==
    DocHead
    \o << KeyLine(1, "b", "!decision", NoVal),
          KeyLine(2, "condition", "", Str("true")),
          KeyLine(2, "positivePath", "", Str("a")) >>
    \o StartLine("a")

\* a start node that is not among the nodes
NoStartDoc == DocHead \o TerminatorLines("b") \o StartLine("zz")

\* the key of a node written twice
DuplicateKeyDoc ==
    DocHead \o TerminatorLines("b") \o TerminatorLines("b") \o StartLine("a")

\* no nodes mapping
NoNodesDoc == StartLine("a")

\* a node whose key is the empty string
EmptyKeyDoc == DocHead \o TerminatorLines("") \o TerminatorLines("b") \o StartLine("a")

\* an input declared with a type the editor does not offer
IntegerInputDoc ==
    << KeyLine(0, "inputs", "", NoVal),
       ItemLine(1, InputValue("count", "Integer")),
       KeyLine(0, "nodes", "", NoVal) >>
    \o TerminatorLines("b") \o StartLine("b")

Docs ==
    <<GoodDoc, CycleDoc, NoStartDoc, DuplicateKeyDoc, NoNodesDoc, EmptyKeyDoc,
      IntegerInputDoc>>

\* handleLoadYaml without its check that the start node is among the nodes
handleLoadYamlNoStartCheck(yamlString) ==
    /\ Event([handler |-> "handleLoadYaml", yamlString |-> yamlString])
    /\ \E loaded \in {parseYaml(yamlString)} :
       \E laidOut \in {autoLayout(loaded.nodes, loaded.startNodeId)} :
          IF loaded.error = "" /\ laidOut.error = ""
          THEN /\ inputs' = loaded.inputs
               /\ startNodeId' = loaded.startNodeId
               /\ nodes' = laidOut.nodes
               /\ selectedNodeId' = Null
               /\ toast' = "YAML Loaded"
          ELSE /\ toast' = "Load Failed"
               /\ UNCHANGED <<nodes, inputs, startNodeId, selectedNodeId>>
    /\ UNCHANGED <<draggedNode, isPanning, didPan, now>>

\* handleLoadYaml with the inputs and the start node set before the layout
handleLoadYamlSetsBeforeLayout(yamlString) ==
    /\ Event([handler |-> "handleLoadYaml", yamlString |-> yamlString])
    /\ \E loaded \in {parseYaml(yamlString)} :
       \E laidOut \in {autoLayout(loaded.nodes, loaded.startNodeId)} :
          IF loaded.error = "" /\ HasNode(loaded.nodes, loaded.startNodeId)
          THEN /\ inputs' = loaded.inputs
               /\ startNodeId' = loaded.startNodeId
               /\ IF laidOut.error = ""
                  THEN /\ nodes' = laidOut.nodes
                       /\ selectedNodeId' = Null
                       /\ toast' = "YAML Loaded"
                  ELSE /\ toast' = "Load Failed"
                       /\ UNCHANGED <<nodes, selectedNodeId>>
          ELSE /\ toast' = "Load Failed"
               /\ UNCHANGED <<nodes, inputs, startNodeId, selectedNodeId>>
    /\ UNCHANGED <<draggedNode, isPanning, didPan, now>>

handleLoadYaml(yamlString) ==
    /\ Event([handler |-> "handleLoadYaml", yamlString |-> yamlString])
    /\ \E loaded \in {parseYaml(yamlString)} :
       \E laidOut \in {autoLayout(loaded.nodes, loaded.startNodeId)} :
          IF loaded.error = "" /\ HasNode(loaded.nodes, loaded.startNodeId)
             /\ laidOut.error = ""
          THEN /\ inputs' = loaded.inputs
               /\ startNodeId' = loaded.startNodeId
               /\ nodes' = laidOut.nodes
               /\ selectedNodeId' = Null
               /\ toast' = "YAML Loaded"
          ELSE /\ toast' = "Load Failed"
               /\ UNCHANGED <<nodes, inputs, startNodeId, selectedNodeId>>
    /\ UNCHANGED <<draggedNode, isPanning, didPan, now>>

(***************************************************************************)
(* The editor as a whole: every event the page handles.                    *)
(***************************************************************************)
\* the id the Inspector offers first among the other nodes, if any
\* useMemo(() => generateYaml(nodes, inputs, startNodeId))
yamlCode == generateYaml(nodes, inputs, startNodeId)

\* a sequence without its k-th element
RemoveAt(seq, k) == SubSeq(seq, 1, k - 1) \o SubSeq(seq, k + 1, Len(seq))

\* handleValidation up to its await: the toast is shown and the call is
\* made with the text of this render
handleValidation ==
    /\ steps < MaxSteps
    /\ Len(pendingValidations) < MaxPending
    /\ steps' = steps + 1
    /\ lastCall' = [handler |-> "handleValidation"]
    /\ toast' = "Validating Flowchart..."
    /\ pendingValidations' = Append(pendingValidations, yamlCode)
    /\ UNCHANGED <<nodes, inputs, startNodeId, selectedNodeId, draggedNode,
                   isPanning, didPan, now, layoutVars, codecVars,
                   routerVars, relaxVars>>

\* a continuation that also puts the text it had sent back into the editor
validationResolvedRestores(k) ==
    /\ k \in DOMAIN pendingValidations
    /\ pendingValidations' = RemoveAt(pendingValidations, k)
    /\ lastCall' = [handler |-> "validationResolved",
                    yamlCode |-> pendingValidations[k]]
    /\ toast' = "Validation Complete"
    /\ nodes' = parseYaml(pendingValidations[k].text).nodes
    /\ UNCHANGED <<inputs, startNodeId, selectedNodeId, draggedNode,
                   isPanning, didPan, now, steps, layoutVars, codecVars,
                   routerVars, relaxVars>>

\* the rest of handleValidation when the k-th call awaited returns
validationResolved(k) ==
    /\ k \in DOMAIN pendingValidations
    /\ pendingValidations' = RemoveAt(pendingValidations, k)
    /\ lastCall' = [handler |-> "validationResolved",
                    yamlCode |-> pendingValidations[k]]
    /\ toast' = "Validation Complete"
    /\ UNCHANGED <<nodes, inputs, startNodeId, selectedNodeId, draggedNode,
                   isPanning, didPan, now, steps, layoutVars, codecVars,
                   routerVars, relaxVars>>

\* the catch block of handleValidation when the k-th call awaited throws
validationRejected(k) ==
    /\ k \in DOMAIN pendingValidations
    /\ pendingValidations' = RemoveAt(pendingValidations, k)
    /\ lastCall' = [handler |-> "validationRejected",
                    yamlCode |-> pendingValidations[k]]
    /\ toast' = "Validation Failed"
    /\ UNCHANGED <<nodes, inputs, startNodeId, selectedNodeId, draggedNode,
                   isPanning, didPan, now, steps, layoutVars, codecVars,
                   routerVars, relaxVars>>

OtherIds(id) ==
    LET others == SelectSeq(nodes, LAMBDA n : n.id # id)
    IN IF others = <<>> THEN {} ELSE {others[1].id}

\* what the form of the Inspector may hold when Save is pressed
FormData(node) ==
    IF node.type = "decision"
    THEN {node.data}
         \cup {[node.data EXCEPT !.positivePath = t] : t \in {""} \cup OtherIds(node.id)}
    ELSE {node.data, TerminatorNodeData("{}")}

FormIds(node) == {node.id, "", " ", "renamed"} \cup OtherIds(node.id)

PointerMoves ==
    { [to |-> NodePosition(0, 0), moved |-> FALSE],
      [to |-> NodePosition(120 * XUnit, 80), moved |-> TRUE] }

\* InputConfigurator.handleAddInput with the name and the type of the form;
\* onUpdateInputs is setInputs
handleAddInput(newInputName, newInputType) ==
    /\ Event([handler |-> "handleAddInput", name |-> newInputName,
              type |-> newInputType])
    /\ IF Trim(newInputName) # ""
          /\ ~\E i \in DOMAIN inputs : inputs[i].name = Trim(newInputName)
       THEN inputs' = Append(inputs, [name |-> Trim(newInputName),
                                      type |-> newInputType])
       ELSE UNCHANGED inputs
    /\ UNCHANGED <<nodes, startNodeId, selectedNodeId, draggedNode, isPanning,
                   didPan, now, toast>>

\* InputConfigurator.handleRemoveInput
handleRemoveInput(inputName) ==
    /\ Event([handler |-> "handleRemoveInput", name |-> inputName])
    /\ inputs' = SelectSeq(inputs, LAMBDA input : input.name # inputName)
    /\ UNCHANGED <<nodes, startNodeId, selectedNodeId, draggedNode, isPanning,
                   didPan, now, toast>>

\* the names typed into the form and the types its select offers
InputNames == {" ", "flag", "isLoyalCustomer"}

InputTypes == {"Boolean", "Double", "String"}

EditorNext ==
    \/ Tick
    \/ \E i \in DOMAIN nodes : handleNodeClick(nodes[i].id)
    \/ \E i \in DOMAIN nodes : handleNodeDragStart(nodes[i].id)
    \/ handleCanvasMouseDown
    \/ \E m \in PointerMoves : handleMouseMove(m.to, m.moved)
    \/ handleMouseUp
    \/ handleMouseLeave
    \/ \E type \in {"decision", "terminator"} : addNode(type)
    \/ /\ selectedNode # Null
       /\ \E newId \in FormIds(selectedNode[1]), data \in FormData(selectedNode[1]) :
             handleNodeSave(selectedNode[1].id, newId, data)
    \/ /\ selectedNode # Null
       /\ deleteNode(selectedNode[1].id)
    \/ handleAutoLayout
    \/ \E d \in DOMAIN Docs : handleLoadYaml(Docs[d])
    \/ \E name \in InputNames, type \in InputTypes : handleAddInput(name, type)
    \/ \E i \in DOMAIN inputs : handleRemoveInput(inputs[i].name)
    \/ handleValidation
    \/ \E k \in 1..MaxPending : validationResolved(k)
    \/ \E k \in 1..MaxPending : validationRejected(k)

(***************************************************************************)
(* The codec as a pair of functions: the graphs generateYaml is given.     *)
(***************************************************************************)
CodecIds == {"a", "b", "1", "condition"}

CodecConditions == {"true", "a%41", "50%", "nodes: {}"}

CodecNodeData(ids) ==
    [type : {"decision"},
     data : {DecisionNodeData(c, p, n) :
                c \in CodecConditions, p \in {"", "zz"} \cup ids, n \in {""} \cup ids}]
    \cup [type : {"terminator"},
          data : {TerminatorNodeData(o) : o \in {"{}", "{result: new}"}}]

NoText == [error |-> "none", text |-> <<>>]

NoParse == [error |-> "none", nodes |-> <<>>, inputs |-> <<>>, startNodeId |-> ""]

CodecInit ==
    /\ \E n \in 1..MaxCodecNodes :
         \E ids \in [1..n -> CodecIds] :
            /\ \A i, j \in 1..n : ids[i] = ids[j] => i = j
            /\ \E kinds \in [1..n -> CodecNodeData(Range(ids))] :
               \E ins \in {<<>>, <<[name |-> "flag", type |-> "Boolean"]>>} :
                  codecGraph =
                     [nodes |-> [i \in 1..n |->
                                    FlowNode(ids[i], kinds[i].type,
                                             NodePosition(i * 40 * XUnit, 10 * i),
                                             kinds[i].data)],
                      inputs |-> ins,
                      startNodeId |-> ids[1]]
    /\ codecText = NoText
    /\ codecParsed = NoParse

\* yamlCode = generateYaml(nodes, inputs, startNodeId)
Encode ==
    /\ codecText = NoText
    /\ codecText' = generateYaml(codecGraph.nodes, codecGraph.inputs,
                                 codecGraph.startNodeId)
    /\ UNCHANGED <<codecGraph, codecParsed, layoutVars, editorVars, routerVars, relaxVars>>

\* parseYaml of the text written
Decode ==
    /\ codecText # NoText
    /\ codecText.error = ""
    /\ codecParsed = NoParse
    /\ codecParsed' = parseYaml(codecText.text)
    /\ UNCHANGED <<codecGraph, codecText, layoutVars, editorVars, routerVars, relaxVars>>

CodecNext == Encode \/ Decode

(***************************************************************************)
(* parseYaml as a function: the texts it is applied to.  The text is what  *)
(* the user typed into the YAML pane: any root, any startNode, any value   *)
(* of nodes, and up to MaxParseEntries payloads of every shape.            *)
(***************************************************************************)
PayloadShapes ==
    {"decisionTag", "decisionTagOutput", "decisionTagEmpty", "terminatorTag",
     "terminatorTagCondition", "condition", "conditionOutput", "output",
     "neither", "emptyMap", "scalar", "null", "list", "scalarTag",
     "decisionTagNegative", "conditionNegative", "conditionPositive"}

ConditionLine == KeyLine(2, "condition", "", Str("true"))

OutputLine == KeyLine(2, "output", "", EmptyMap)

\* a payload: the tag and the value on the line that opens it, and the
\* lines of its fields
PayloadOf(shape) ==
    CASE shape = "decisionTag" ->
             [tag |-> "!decision", val |-> NoVal,
              fields |-> <<ConditionLine, KeyLine(2, "positivePath", "", Str("b"))>>]
      [] shape = "decisionTagOutput" ->
             [tag |-> "!decision", val |-> NoVal, fields |-> <<OutputLine>>]
      [] shape = "decisionTagEmpty" ->
             [tag |-> "!decision", val |-> NoVal, fields |-> <<>>]
      [] shape = "terminatorTag" ->
             [tag |-> "!terminator", val |-> NoVal, fields |-> <<OutputLine>>]
      [] shape = "terminatorTagCondition" ->
             [tag |-> "!terminator", val |-> NoVal, fields |-> <<ConditionLine>>]
      [] shape = "condition" ->
             [tag |-> "", val |-> NoVal, fields |-> <<ConditionLine>>]
      [] shape = "conditionOutput" ->
             [tag |-> "", val |-> NoVal, fields |-> <<ConditionLine, OutputLine>>]
      [] shape = "output" ->
             [tag |-> "", val |-> NoVal, fields |-> <<OutputLine>>]
      [] shape = "neither" ->
             [tag |-> "", val |-> NoVal,
              fields |-> <<KeyLine(2, "name", "", Str("true"))>>]
      [] shape = "emptyMap" -> [tag |-> "", val |-> EmptyMap, fields |-> <<>>]
      [] shape = "scalar" -> [tag |-> "", val |-> Str("true"), fields |-> <<>>]
      [] shape = "null" -> [tag |-> "", val |-> NoVal, fields |-> <<>>]
      [] shape = "list" -> [tag |-> "", val |-> EmptyList, fields |-> <<>>]
      [] shape = "scalarTag" ->
             [tag |-> "!decision", val |-> Str("true"), fields |-> <<>>]
      [] shape = "decisionTagNegative" ->
             [tag |-> "!decision", val |-> NoVal,
              fields |-> <<ConditionLine, KeyLine(2, "negativePath", "", Str("b"))>>]
      [] shape = "conditionNegative" ->
             [tag |-> "", val |-> NoVal,
              fields |-> <<ConditionLine, KeyLine(2, "negativePath", "", Str("b"))>>]
      [] shape = "conditionPositive" ->
             [tag |-> "", val |-> NoVal,
              fields |-> <<ConditionLine, KeyLine(2, "positivePath", "", Str("b"))>>]

ParseIds == <<"a", "1", "b", "0">>

RECURSIVE KeyEntries(_, _)
\* the entries of a nodes mapping: the k-th payload under the k-th id
KeyEntries(shapes, k) ==
    IF k > Len(shapes) THEN <<>>
    ELSE <<KeyLine(1, ParseIds[k], PayloadOf(shapes[k]).tag, PayloadOf(shapes[k]).val)>>
         \o PayloadOf(shapes[k]).fields \o KeyEntries(shapes, k + 1)

RECURSIVE ItemEntries(_, _)
\* the same payloads as the items of a list
ItemEntries(shapes, k) ==
    IF k > Len(shapes) THEN <<>>
    ELSE <<Line(1, "item", "", PayloadOf(shapes[k]).tag, PayloadOf(shapes[k]).val)>>
         \o PayloadOf(shapes[k]).fields \o ItemEntries(shapes, k + 1)

ShapeSeqs == UNION {[1..n -> PayloadShapes] : n \in 1..MaxParseEntries}

\* the nodes part of a document
NodesParts ==
    {<<>>,
     <<KeyLine(0, "nodes", "", NoVal)>>,
     <<KeyLine(0, "nodes", "", Str("none"))>>,
     <<KeyLine(0, "nodes", "", Num(1))>>,
     <<KeyLine(0, "nodes", "", EmptyMap)>>,
     <<KeyLine(0, "nodes", "", TaggedEmptyMap)>>,
     <<KeyLine(0, "nodes", "", EmptyList)>>,
     <<KeyLine(0, "nodes", "!decision", NoVal), KeyLine(1, "condition", "", Str("true"))>>}
    \cup {<<KeyLine(0, "nodes", "", NoVal)>> \o KeyEntries(shapes, 1) :
             shapes \in ShapeSeqs}
    \cup {<<KeyLine(0, "nodes", "", NoVal)>> \o ItemEntries(shapes, 1) :
             shapes \in ShapeSeqs}

\* the startNode part of a document
StartParts ==
    {<<>>,
     <<KeyLine(0, "startNode", "", NoVal)>>,
     <<KeyLine(0, "startNode", "", Str(""))>>,
     <<KeyLine(0, "startNode", "", Num(1))>>,
     <<KeyLine(0, "startNode", "", EmptyList)>>,
     StartLine("a"),
     StartLine("zz")}

ParseTexts ==
    {<<>>,
     <<Line(0, "scalar", "", "", Str("true"))>>,
     <<Line(0, "scalar", "", "", Num(1))>>,
     <<Line(0, "scalar", "", "", NullV)>>,
     <<Line(0, "item", "", "", Str("true"))>>}
    \cup {n \o st : n \in NodesParts, st \in StartParts}

ParseInit ==
    /\ codecGraph = [nodes |-> <<>>, inputs |-> <<>>, startNodeId |-> ""]
    /\ \E text \in ParseTexts : codecText = [error |-> "", text |-> text]
    /\ codecParsed = NoParse

(***************************************************************************)
(* Specifications.  Each one runs one part; the variables of the others    *)
(* stay as they start.                                                     *)
(***************************************************************************)
LayoutIdle ==
    /\ layoutNodes = <<>>
    /\ layoutStart = ""
    /\ layoutResult = NoResult

CodecIdle ==
    /\ codecGraph = [nodes |-> <<>>, inputs |-> <<>>, startNodeId |-> ""]
    /\ codecText = NoText
    /\ codecParsed = NoParse

Init == EditorInit /\ LayoutIdle /\ CodecIdle /\ RouterIdle /\ RelaxIdle

Next == EditorNext

Spec == Init /\ [][Next]_vars

InitLayout == LayoutInit /\ CodecIdle /\ EditorInit /\ RouterIdle /\ RelaxIdle

SpecLayout == InitLayout /\ [][LayoutNext]_vars

InitCodec == CodecInit /\ LayoutIdle /\ EditorInit /\ RouterIdle /\ RelaxIdle

SpecCodec == InitCodec /\ [][CodecNext]_vars

InitParse == ParseInit /\ LayoutIdle /\ EditorInit /\ RouterIdle /\ RelaxIdle

ParseNext == Decode

SpecParse == InitParse /\ [][ParseNext]_vars

InitRouter == RouterInit /\ LayoutIdle /\ CodecIdle /\ EditorInit /\ RelaxIdle

SpecRouter == InitRouter /\ [][RouterNext]_vars

\* getPath is synchronous code: once called it runs to its return
SpecRouterLive == SpecRouter /\ WF_vars(RouterNext)

InitRelax == LayoutInit /\ RelaxInit /\ CodecIdle /\ EditorInit /\ RouterIdle

SpecRelax == InitRelax /\ [][RelaxNext]_vars

\* autoLayout is synchronous code: once called it runs on
SpecRelaxLive == SpecRelax /\ WF_vars(RelaxNext)

(***************************************************************************)
(* Properties of the codec.                                                *)
(***************************************************************************)
\* a node without its position
Content(node) == [id |-> node.id, type |-> node.type, data |-> node.data]

Contents(ns) == {Content(ns[i]) : i \in DOMAIN ns}

Encoded == codecText # NoText

Decoded == codecParsed # NoParse

\* C7: for every graph with a valid start node, generateYaml returns a text
\* and parseYaml of that text returns the same start node, the same inputs
\* and the same nodes but for their positions, which are all the origin.
C7_RoundTrip ==
    /\ Encoded => codecText.error = ""
    /\ Decoded =>
          /\ codecParsed.error = ""
          /\ codecParsed.startNodeId = codecGraph.startNodeId
          /\ codecParsed.inputs = codecGraph.inputs
          /\ Contents(codecParsed.nodes) = Contents(codecGraph.nodes)
          /\ Len(codecParsed.nodes) = Len(codecGraph.nodes)
          /\ \A i \in DOMAIN codecParsed.nodes :
                codecParsed.nodes[i].position = NodePosition(0, 0)

(***************************************************************************)
(* Properties of the editor.                                               *)
(***************************************************************************)
\* the step is the handling of an event by handler h
EventOf(h) == steps' # steps /\ lastCall'.handler = h

\* the first node of the list with the given id: the one the Inspector shows
FirstWithId(ns, id) ==
    CHOOSE i \in DOMAIN ns :
        ns[i].id = id /\ \A j \in DOMAIN ns : ns[j].id = id => i <= j

\* a path after a substitution of one id for another
Subst(path, from, to) == IF path = from THEN to ELSE path

\* C1: in every state reached by adding, saving, deleting, dragging, laying
\* out and loading, startNodeId is the id of a node of the live list.
C1_StartNodeLive == HasNode(nodes, startNodeId)

\* the start node was renamed
C1_Witness ==
    /\ lastCall.handler = "handleNodeSave"
    /\ lastCall.oldId = INITIAL_START_NODE_ID
    /\ startNodeId = "renamed"

\* and a document was loaded
C1_WitnessLoaded == toast = "YAML Loaded" /\ startNodeId = "a"

\* C2: in every reachable state the ids of the live nodes are pairwise
\* distinct and none is the empty string, addNode included when the clock
\* has not advanced since the last addNode.
C2_IdsUniqueNonEmpty ==
    /\ \A i, j \in DOMAIN nodes : nodes[i].id = nodes[j].id => i = j
    /\ \A i \in DOMAIN nodes : nodes[i].id # ""

\* C3: a successful rename of node A to B (A exists, B is not blank and not
\* the id of a node) gives the node the id B, makes B the start node if A
\* was, turns every path of another node that was A into B, and changes no
\* other path and no other node's id, type or position.
C3_RenameCascade ==
    [][ LET A == lastCall'.oldId
            B == lastCall'.newId
            k == FirstWithId(nodes, A)
        IN (/\ EventOf("handleNodeSave")
            /\ A # B /\ HasNode(nodes, A) /\ Trim(B) # "" /\ ~HasNode(nodes, B))
           => /\ Len(nodes') = Len(nodes)
              /\ nodes'[k].id = B
              /\ startNodeId' = Subst(startNodeId, A, B)
              /\ \A i \in DOMAIN nodes \ {k} :
                    /\ nodes'[i].id = nodes[i].id
                    /\ nodes'[i].type = nodes[i].type
                    /\ nodes'[i].position = nodes[i].position
                    /\ nodes[i].type = "decision" =>
                          /\ nodes'[i].data.positivePath =
                                Subst(nodes[i].data.positivePath, A, B)
                          /\ nodes'[i].data.negativePath =
                                Subst(nodes[i].data.negativePath, A, B)
      ]_vars

\* C4: the deletion of a node N that is not the start node removes N and
\* leaves no decision node with a path equal to N, each such path being
\* empty afterwards; every other path, the id, type and position of every
\* remaining node, and startNodeId are unchanged.
C4_DeleteClearsReferences ==
    [][ LET N == lastCall'.nodeId
            remaining == SelectSeq(nodes, LAMBDA n : n.id # N)
        IN (EventOf("deleteNode") /\ N # startNodeId)
           => /\ ~HasNode(nodes', N)
              /\ \A i \in DOMAIN nodes' :
                    nodes'[i].type = "decision" =>
                       /\ nodes'[i].data.positivePath # N
                       /\ nodes'[i].data.negativePath # N
              /\ Len(nodes') = Len(remaining)
              /\ \A i \in DOMAIN remaining :
                    /\ nodes'[i].id = remaining[i].id
                    /\ nodes'[i].type = remaining[i].type
                    /\ nodes'[i].position = remaining[i].position
                    /\ remaining[i].type = "decision" =>
                          /\ nodes'[i].data.positivePath =
                                Subst(remaining[i].data.positivePath, N, "")
                          /\ nodes'[i].data.negativePath =
                                Subst(remaining[i].data.negativePath, N, "")
              /\ startNodeId' = startNodeId
      ]_vars

\* C5: a request to delete the start node is refused: the nodes with their
\* data, the inputs, startNodeId and the selection are unchanged.
C5_StartDeleteRefused ==
    [][ (EventOf("deleteNode") /\ lastCall'.nodeId = startNodeId)
        => UNCHANGED <<nodes, inputs, startNodeId, selectedNodeId>> ]_vars

\* the deletion of the start node was asked for and refused
C5_Witness ==
    /\ lastCall.handler = "deleteNode"
    /\ lastCall.nodeId = startNodeId
    /\ toast = "Cannot delete start node"
    /\ selectedNodeId = Some(startNodeId)

\* C6: a save whose new id is empty or blank, or differs from the old id
\* and is the id of a node, is rejected with no effect on the nodes,
\* startNodeId or the selection.
C6_BadIdRejected ==
    [][ (/\ EventOf("handleNodeSave")
         /\ \/ Trim(lastCall'.newId) = ""
            \/ lastCall'.newId # lastCall'.oldId /\ HasNode(nodes, lastCall'.newId))
        => UNCHANGED <<nodes, inputs, startNodeId, selectedNodeId>> ]_vars

\* a save under the id of another node, with edited data, was rejected
C6_Witness ==
    /\ lastCall.handler = "handleNodeSave"
    /\ lastCall.newId # lastCall.oldId
    /\ HasNode(nodes, lastCall.newId)
    /\ toast = "ID already in use"
    /\ \E i \in DOMAIN nodes :
          nodes[i].id = lastCall.oldId /\ nodes[i].data # lastCall.data

\* and a save under a blank id
C6_WitnessBlank ==
    lastCall.handler = "handleNodeSave" /\ lastCall.newId = " " /\ toast = "Invalid ID"

\* a load of the text fails: the decoding, the check of the start node or
\* the layout
LoadFails(yamlString) ==
    LET loaded == parseYaml(yamlString)
    IN \/ loaded.error # ""
       \/ ~HasNode(loaded.nodes, loaded.startNodeId)
       \/ autoLayout(loaded.nodes, loaded.startNodeId).error # ""

\* C8: a load that fails at any stage, and an auto-layout that fails with the
\* cycle error, leave nodes (positions included), inputs and startNodeId as
\* they were.
C8_FailureLeavesGraph ==
    [][ (\/ EventOf("handleLoadYaml") /\ LoadFails(lastCall'.yamlString)
         \/ EventOf("handleAutoLayout") /\ autoLayout(nodes, startNodeId).error # "")
        => UNCHANGED <<nodes, inputs, startNodeId>> ]_vars

\* a document with a cycle, decoded and with its start node present, was
\* refused by the layout
C8_Witness ==
    /\ lastCall.handler = "handleLoadYaml"
    /\ parseYaml(lastCall.yamlString).error = ""
    /\ HasNode(parseYaml(lastCall.yamlString).nodes,
               parseYaml(lastCall.yamlString).startNodeId)
    /\ toast = "Load Failed"

\* an auto-layout of the live graph failed
C8_WitnessAutoLayout ==
    lastCall.handler = "handleAutoLayout" /\ toast = "Auto-Layout Failed"

\* a document that cannot be decoded and one without its start node failed
C8_WitnessDecode ==
    /\ lastCall.handler = "handleLoadYaml"
    /\ parseYaml(lastCall.yamlString).error # ""
    /\ toast = "Load Failed"

\* C11: after a successful autoLayout any two distinct nodes on the same row
\* (equal y) have x coordinates at least the minimum spacing apart (the node
\* width plus half the horizontal padding).  Stated for the live list after
\* the Auto-Layout button.
C11_NoOverlap ==
    (lastCall.handler = "handleAutoLayout" /\ toast = "Auto-Layout Complete")
        => RowsSpaced(nodes)

\* the ids of the entries of `nodes` in a text, in the order written: the
\* keys one level below the top
NodeEntryIds(text) ==
    LET entries == SelectSeq(text, LAMBDA l : l.kind = "key" /\ l.ind = 1)
    IN [i \in DOMAIN entries |-> entries[i].key]

\* C12: in the text generateYaml returns, the entries of `nodes` appear in
\* ascending order of their ids, whatever the ids are, ids that are also
\* field names (condition, output, negativePath, positivePath) included.
C12_NodesSortedById ==
    (Encoded /\ codecText.error = "") =>
        LET ids == NodeEntryIds(codecText.text)
        IN \A i, j \in DOMAIN ids : i < j => localeCompare(ids[i], ids[j]) < 0

(***************************************************************************)
(* Properties of parseYaml, read off the text it was given.                *)
(***************************************************************************)
ParsedText == codecText.text

\* the top-level line of a key, if the text has one
TopLines(text, key) ==
    {i \in DOMAIN text : text[i].ind = 0 /\ text[i].kind = "key" /\ text[i].key = key}

\* the text is a mapping whose startNode is a non-empty string
StartIsString(text) ==
    \E i \in TopLines(text, "startNode") :
        text[i].val.t = "string" /\ text[i].val.v # ""

\* the lines that open the entries of a nodes mapping written as a block
EntryHeads(text) ==
    IF \E i \in TopLines(text, "nodes") : text[i].tag = "" /\ text[i].val = NoVal
    THEN {i \in DOMAIN text : text[i].ind = 1 /\ text[i].kind = "key"}
    ELSE {}

\* the names of the fields written below the line that opens a payload
FieldsBelow(text, i) ==
    {text[j].key : j \in (i + 1)..(i + BlockLen(SubSeq(text, i + 1, Len(text)), 1))}

\* the variant the payload opened by line i is to have
VariantOf(text, i) ==
    CASE text[i].tag = "!decision" -> "decision"
      [] text[i].tag = "!terminator" -> "terminator"
      [] "condition" \in FieldsBelow(text, i) -> "decision"
      [] "output" \in FieldsBelow(text, i) -> "terminator"
      [] OTHER -> "none"

\* the text is YAML, its startNode is good and its nodes is a block mapping
\* with at least one entry
HasEntries(text) ==
    /\ yamlLoad(text).t # "YAMLException"
    /\ StartIsString(text)
    /\ EntryHeads(text) # {}

\* C13: each payload is resolved to the variant of its tag if it has one,
\* else to Decision if it has a condition field, else to Terminator if it
\* has an output field; if some payload is none of these the decode fails
\* with the error that names the id of such a payload and returns no nodes.
C13_VariantResolution ==
    (Decoded /\ HasEntries(ParsedText)) =>
        LET heads == EntryHeads(ParsedText)
        IN IF \A i \in heads : VariantOf(ParsedText, i) # "none"
           THEN /\ codecParsed.error = ""
                /\ Len(codecParsed.nodes) = Cardinality(heads)
                /\ \A i \in heads : \E k \in DOMAIN codecParsed.nodes :
                      /\ codecParsed.nodes[k].id = ParsedText[i].key
                      /\ codecParsed.nodes[k].type = VariantOf(ParsedText, i)
           ELSE /\ \E i \in heads :
                      /\ VariantOf(ParsedText, i) = "none"
                      /\ codecParsed.error = UnknownTypeMessage(ParsedText[i].key)
                /\ codecParsed.nodes = <<>>

\* a decode that resolved a payload with both fields and a payload whose tag
\* is not the one its fields suggest
C13_Witness ==
    /\ Decoded /\ HasEntries(ParsedText) /\ codecParsed.error = ""
    /\ \E i, j \in EntryHeads(ParsedText) :
          /\ ParsedText[i].tag = ""
          /\ FieldsBelow(ParsedText, i) = {"condition", "output"}
          /\ ParsedText[j].tag = "!terminator"
          /\ FieldsBelow(ParsedText, j) = {"condition"}

\* a decode that failed on the second of two payloads, the first being good
C13_WitnessUnknown ==
    /\ Decoded /\ HasEntries(ParsedText)
    /\ codecParsed.error = UnknownTypeMessage("a")
    /\ \E i \in EntryHeads(ParsedText) :
          ParsedText[i].key = "1" /\ VariantOf(ParsedText, i) # "none"

\* the root of the text is a mapping or a list, not a scalar or nothing
RootIsStructured(text) == text # <<>> /\ Head(text).kind # "scalar"

\* the text has a nodes key whose value is a mapping, written as a block or
\* as {}
NodesIsMapping(text) ==
    \E i \in TopLines(text, "nodes") :
        /\ text[i].tag = ""
        /\ \/ text[i].val \in {EmptyMap, TaggedEmptyMap}
           \/ /\ text[i].val = NoVal
              /\ i < Len(text) /\ text[i + 1].ind = 1 /\ text[i + 1].kind = "key"

\* the text has no nodes key, or one whose value is null or a scalar
NodesIsMissing(text) ==
    \A i \in TopLines(text, "nodes") :
        /\ text[i].tag = ""
        /\ \/ text[i].val.t \in {"string", "number"}
           \/ text[i].val = NoVal /\ (i = Len(text) \/ text[i + 1].ind = 0)

\* the first validation that fails, in the order root, startNode, nodes,
\* payloads; "" if none fails
FirstFailure(text) ==
    IF ~RootIsStructured(text) THEN "root"
    ELSE IF ~StartIsString(text) THEN "startNode"
    ELSE IF NodesIsMissing(text) THEN "nodes"
    ELSE IF \E i \in EntryHeads(text) : VariantOf(text, i) = "none" THEN "variant"
    ELSE ""

\* the validation an error message reports
FailureOf(error) ==
    CASE error = "" -> ""
      [] error = "Invalid YAML format: root should be an object." -> "root"
      [] error = "Invalid YAML format: missing or invalid startNode." -> "startNode"
      [] error = "Invalid YAML format: missing or invalid nodes map." -> "nodes"
      [] \E k \in DOMAIN ParseIds : error = UnknownTypeMessage(ParseIds[k]) -> "variant"
      [] OTHER -> "other"

C14_WitnessNodes ==
    /\ Decoded
    /\ StartIsString(ParsedText) /\ NodesIsMissing(ParsedText)
    /\ codecParsed.error = "Invalid YAML format: missing or invalid nodes map."

\* a text whose startNode names none of its two nodes was decoded
C14_WitnessNoStart ==
    /\ Decoded
    /\ codecParsed.error = ""
    /\ Len(codecParsed.nodes) = 2
    /\ ~HasNode(codecParsed.nodes, codecParsed.startNodeId)

\* C15: parseYaml fails with the format error of nodes whenever the value of
\* nodes is absent, null or anything but a mapping from ids to payloads (a
\* scalar, a list of payloads), and it returns zero nodes for the empty
\* mapping.
C15_NodesMustBeMapping ==
    (/\ Decoded
     /\ yamlLoad(ParsedText).t # "YAMLException"
     /\ RootIsStructured(ParsedText)
     /\ StartIsString(ParsedText)
     /\ \A i \in TopLines(ParsedText, "nodes") : ParsedText[i].tag = "")
    => IF NodesIsMapping(ParsedText)
       THEN EntryHeads(ParsedText) = {}
                => codecParsed.error = "" /\ codecParsed.nodes = <<>>
       ELSE codecParsed.error = "Invalid YAML format: missing or invalid nodes map."

\* C16: a successful autoLayout returns the nodes it was given, as many and
\* in the same order, each with its id, type and data unchanged (only the
\* position may differ), and the list given and its nodes are as before.
C16_LayoutFrame ==
    [][ (layoutResult' # layoutResult /\ layoutResult'.error = "")
        => /\ layoutNodes' = layoutNodes
           /\ Len(layoutResult'.nodes) = Len(layoutNodes)
           /\ \A i \in DOMAIN layoutNodes :
                 Content(layoutResult'.nodes[i]) = Content(layoutNodes[i]) ]_vars

\* a layout of three nodes that moved every one of them, the list not being
\* in the order of the rows
C16_Witness ==
    /\ LayoutSucceeded
    /\ Len(layoutNodes) = 3
    /\ \A i \in DOMAIN layoutNodes :
          layoutResult.nodes[i].position # layoutNodes[i].position
    /\ layoutResult.nodes[2].position.y > layoutResult.nodes[3].position.y

\* the same graph with other incoming positions: all at the origin, as
\* parseYaml leaves them, and the positions handed round the list
AtOrigin(ns) == [i \in DOMAIN ns |-> [ns[i] EXCEPT !.position = NodePosition(0, 0)]]

Mirrored(ns) ==
    [i \in DOMAIN ns |-> [ns[i] EXCEPT !.position = ns[Len(ns) + 1 - i].position]]

\* C17: autoLayout is idempotent and ignores the incoming positions: laying
\* out its own result gives every node the same position again, and a graph
\* that differs from the one given only in its positions gets the same
\* layout.
C17_LayoutIdempotent ==
    LayoutSucceeded =>
        /\ autoLayout(layoutResult.nodes, layoutStart) = layoutResult
        /\ autoLayout(AtOrigin(layoutNodes), layoutStart) = layoutResult
        /\ autoLayout(Mirrored(layoutNodes), layoutStart) = layoutResult

\* a layout of three nodes in three rows, none of which kept its position
C17_Witness ==
    /\ LayoutSucceeded
    /\ Len(layoutNodes) = 3
    /\ Cardinality({layoutResult.nodes[i].position.y : i \in 1..3}) = 3
    /\ \A i \in 1..3 : layoutResult.nodes[i].position # layoutNodes[i].position
    /\ Mirrored(layoutNodes) # layoutNodes

\* C18: the validator call never changes the graph: issuing the request and
\* handling its result or its failure, whatever was added, renamed, deleted,
\* dragged, laid out or loaded while the request was pending, leave nodes,
\* inputs and startNodeId as the editing operations left them.
C18_ValidationLeavesGraph ==
    [][ pendingValidations' # pendingValidations
        => UNCHANGED <<nodes, inputs, startNodeId>> ]_vars

\* a result was handled after the graph it was asked for had been edited
C18_Witness ==
    /\ lastCall.handler = "validationResolved"
    /\ lastCall.yamlCode # yamlCode

\* and so was a failure, with another request still pending
C18_WitnessRejected ==
    /\ lastCall.handler = "validationRejected"
    /\ lastCall.yamlCode # yamlCode
    /\ pendingValidations # <<>>

\* C19: for any anchors and any list of nodes with any positions, the
\* collision-search loop of getPath runs at most (number of nodes + 5)
\* iterations, and getPath then returns a path: it has no other outcome.
C19_RouterTerminates ==
    /\ [](attempts <= Len(routerNodes) + 5)
    /\ <>(routerPath # NoPath)

\* the loop gave up after number of nodes + 5 iterations and the path was
\* returned with the last height tried
C19_Witness ==
    /\ routerPath # NoPath
    /\ ~clearPathFound
    /\ routerNodes # <<>>
    /\ attempts = Len(routerNodes) + 5

\* the loop found a clear height after moving below three nodes in turn
C19_WitnessClear ==
    /\ routerPath # NoPath
    /\ clearPathFound
    /\ attempts = 4
    /\ midY < Infinity

\* the lists that hold the same nodes in another order
PermutationsOf(ns) ==
    {[i \in DOMAIN ns |-> ns[f[i]]] :
        f \in {g \in [DOMAIN ns -> DOMAIN ns] :
                  \A i, j \in DOMAIN ns : g[i] = g[j] => i = j}}

\* on graphs of pairwise distinct ids the text of generateYaml is the same
\* for the same nodes at other positions or in another order of the list
TextOfDistinctIds ==
    Encoded =>
        \A alt \in PermutationsOf(codecGraph.nodes)
                    \cup {AtOrigin(codecGraph.nodes), Mirrored(codecGraph.nodes)} :
            generateYaml(alt, codecGraph.inputs, codecGraph.startNodeId) = codecText

\* a text was written for two nodes that are not in the order of their ids
\* and not at the same position
TextOfDistinctIdsWitness ==
    /\ Encoded
    /\ codecText.error = ""
    /\ Len(codecGraph.nodes) = 2
    /\ localeCompare(codecGraph.nodes[1].id, codecGraph.nodes[2].id) > 0
    /\ Mirrored(codecGraph.nodes) # codecGraph.nodes
    /\ Len(NodeEntryIds(codecText.text)) = 2

\* C20: the text of generateYaml depends only on the inputs, on startNodeId
\* and on the set of nodes with their ids, variants and data: the nodes of
\* the editor at other positions, or in another order of the list, give the
\* text the editor shows.
C20_TextIgnoresPositionAndOrder ==
    \A alt \in {Reverse(nodes), AtOrigin(nodes), Mirrored(nodes)} :
        generateYaml(alt, inputs, startNodeId) = yamlCode

RECURSIVE LongestWithin(_, _, _)
\* dist[v]: the length of the longest path of at most k edges from the start
\* node to v, or -1 if there is none
LongestWithin(dist, ns, k) ==
    IF k = 0 THEN dist
    ELSE LongestWithin(
            [v \in DOMAIN dist |->
                LET into == {dist[ns[i].id] + 1 :
                                i \in {j \in DOMAIN ns :
                                          v \in Targets(ns, j) /\ dist[ns[j].id] >= 0}}
                IN IF into = {} THEN dist[v]
                   ELSE Max2(dist[v], CHOOSE m \in into : \A d \in into : d <= m)],
            ns, k - 1)

\* the longest distance in edges from the start node, for an acyclic graph
LongestFromStart(ns, start) ==
    LongestWithin([v \in NodeIds(ns) |-> IF v = start THEN 0 ELSE -1], ns, Len(ns))

\* the level a node was drawn on
LevelOfRow(y) == (y - PADDING_Y) \div LEVEL_HEIGHT

\* C21: after a successful autoLayout the level of every decision node that
\* is reachable from the start node, read off its y, is the length of the
\* longest path from the start node to it; the start node is on level 0.
C21_LevelsFromStart ==
    LayoutSucceeded =>
        LET dist == LongestFromStart(layoutNodes, layoutStart)
        IN \A i \in DOMAIN layoutNodes :
              (layoutNodes[i].type = "decision" /\ dist[layoutNodes[i].id] >= 0)
              => LevelOfRow(layoutResult.nodes[i].position.y) = dist[layoutNodes[i].id]

FieldSeqBelow(text, i) ==
    [k \in 1..BlockLen(SubSeq(text, i + 1, Len(text)), 1) |-> text[i + k].key]

\* the fields generateYaml is to write for a decision node
FieldsToWrite(node) ==
    <<"condition">>
    \o (IF node.data.negativePath # "" THEN <<"negativePath">> ELSE <<>>)
    \o (IF node.data.positivePath # "" THEN <<"positivePath">> ELSE <<>>)

\* the payload of every decision node is written as condition, then
\* negativePath if it is not empty, then positivePath if it is not empty
PathsWrittenWhenSet ==
    (Encoded /\ codecText.error = "") =>
        \A k \in DOMAIN codecGraph.nodes :
            codecGraph.nodes[k].type = "decision" =>
                \E i \in EntryHeads(codecText.text) :
                    /\ codecText.text[i].key = codecGraph.nodes[k].id
                    /\ FieldSeqBelow(codecText.text, i)
                          = FieldsToWrite(codecGraph.nodes[k])

\* a decision payload of the text without a path is decoded with that path ""
MissingPathsDecodedEmpty ==
    (Decoded /\ codecParsed.error = "") =>
        \A i \in EntryHeads(codecText.text) :
            VariantOf(codecText.text, i) = "decision" =>
                \E k \in DOMAIN codecParsed.nodes :
                    LET n == codecParsed.nodes[k]
                    IN /\ n.id = codecText.text[i].key
                       /\ n.type = "decision"
                       /\ "positivePath" \notin FieldsBelow(codecText.text, i)
                            => n.data.positivePath = ""
                       /\ "negativePath" \notin FieldsBelow(codecText.text, i)
                            => n.data.negativePath = ""

RouterReturnsLoopResult ==
    routerPath # NoPath =>
        routerPath.V = getPath(routerFrom, routerTo, routerNodes,
                               routerEnds.sourceId, routerEnds.targetId,
                               routerPositive)

\* the anchors the sibling connector of the same decision may start from
\* and the targets it may lead to
SiblingCalls ==
    {[from |-> NodePosition(x, routerFrom.y), to |-> t, targetId |-> id] :
        x \in {routerFrom.x, routerFrom.x + 200},
        t \in {NodePosition(100, 300), NodePosition(400, 300)},
        id \in {"b", "c", "zz"}}

\* C24: the two connectors of one decision, starting from anchors of the
\* same y, get horizontal segments at different heights, whatever the
\* positions of the other nodes.
C24_SiblingsDiffer ==
    (routerPath # NoPath /\ routerFrom.y < Infinity) =>
        \A call \in SiblingCalls :
            getPath(call.from, call.to, routerNodes, routerEnds.sourceId,
                    call.targetId, ~routerPositive) # routerPath.V

\* a path reference, or "" if it names no node of the list
Resolved(ns, ref) == IF HasNode(ns, ref) THEN ref ELSE ""

\* the list with every dangling path reference replaced by ""
Undangled(ns) ==
    [i \in DOMAIN ns |->
        IF ns[i].type = "decision"
        THEN [ns[i] EXCEPT !.data.positivePath = Resolved(ns, @),
                           !.data.negativePath = Resolved(ns, @)]
        ELSE ns[i]]

\* two results of autoLayout fail alike and give the nodes the same positions
SameLayout(r1, r2) ==
    /\ r1.error = r2.error
    /\ Len(r1.nodes) = Len(r2.nodes)
    /\ \A i \in DOMAIN r1.nodes : r1.nodes[i].position = r2.nodes[i].position

\* C25: a non-empty path reference that names no node never makes autoLayout
\* fail and never affects its result: the positions are those of the same
\* graph with each such reference replaced by "".
C25_DanglingIgnored ==
    layoutResult # NoResult =>
        SameLayout(layoutResult, autoLayout(Undangled(layoutNodes), layoutStart))

\* a graph with a dangling reference was laid out
C25_Witness ==
    /\ LayoutSucceeded
    /\ Undangled(layoutNodes) # layoutNodes
    /\ \E i \in DOMAIN layoutNodes : Targets(layoutNodes, i) # {}

\* C26: in every state reached by adding inputs, removing inputs and loading
\* YAML, the type of every input declaration is Boolean, Double or String.
C26_InputTypes ==
    \A i \in DOMAIN inputs : inputs[i].type \in {"Boolean", "Double", "String"}

\* adding and removing inputs keep the types within the three
InputFormKeepsTypes ==
    [][(EventOf("handleAddInput") \/ EventOf("handleRemoveInput"))
       => (C26_InputTypes => C26_InputTypes')]_vars

\* the ids reachable from the start node along resolved edges, the start
\* node included
FromStart(ns, start) == {start} \cup Reachable(ns)[start]

\* C27: after a successful autoLayout every node that is not reachable from
\* the start node along resolved decision edges is on a row strictly below
\* every decision node that is reachable from the start node.
C27_UnreachableBelow ==
    LayoutSucceeded =>
        LET main == FromStart(layoutNodes, layoutStart)
            after == layoutResult.nodes
        IN \A i, j \in DOMAIN after :
              (/\ after[i].id \notin main
               /\ after[j].id \in main
               /\ after[j].type = "decision")
              => after[i].position.y > after[j].position.y

\* unreachable terminators are below the reachable decision nodes
UnreachableTerminatorsBelow ==
    LayoutSucceeded =>
        LET main == FromStart(layoutNodes, layoutStart)
            after == layoutResult.nodes
        IN \A i, j \in DOMAIN after :
              (/\ after[i].id \notin main
               /\ after[i].type = "terminator"
               /\ after[j].id \in main
               /\ after[j].type = "decision")
              => after[i].position.y > after[j].position.y

\* the obstacles of the call whose horizontal extent overlaps the span
\* between the anchors and whose vertical extent holds the height y
Pierced(y) ==
    LET obstacles == obstaclesOf(routerNodes, routerEnds.sourceId,
                                 routerEnds.targetId)
    IN {k \in DOMAIN obstacles :
           /\ Min2(routerFrom.x, routerTo.x) < obstacles[k].x2
           /\ Max2(routerFrom.x, routerTo.x) > obstacles[k].x1
           /\ obstacles[k].y1 <= y /\ y <= obstacles[k].y2}

SmallCoordinates ==
    /\ routerFrom.y < Infinity
    /\ \A i \in DOMAIN routerNodes : routerNodes[i].position.y < Infinity

\* with such coordinates the height returned is clear and was found within
\* number of obstacles + 1 attempts
ClearWhenSmall ==
    (routerPath # NoPath /\ SmallCoordinates) =>
        /\ Pierced(routerPath.V) = {}
        /\ clearPathFound
        /\ attempts <= Len(routerNodes) + 1

\* C29: in every state reached by clicking a node or the canvas, adding,
\* saving, renaming or deleting a node and loading YAML, selectedNodeId is
\* null or the id of a node of the list.
C29_SelectionIsLive ==
    selectedNodeId = Null \/ HasNode(nodes, selectedNodeId[1])

\* a node was renamed and is selected under its new id
C29_Witness ==
    /\ lastCall.handler = "handleNodeSave"
    /\ toast = "Node Updated"
    /\ lastCall.newId # lastCall.oldId
    /\ selectedNodeId = Some(lastCall.newId)
    /\ HasNode(nodes, lastCall.newId)

\* the selected node was deleted and nothing is selected
C29_WitnessDeleted ==
    /\ lastCall.handler = "deleteNode"
    /\ toast = "Node Deleted"
    /\ selectedNodeId = Null

\* no resolved edge leads from a node to a node of a lower level
NoUpwardEdge ==
    \A i \in DOMAIN layoutNodes :
        \A vId \in Targets(layoutNodes, i) :
            levels[layoutNodes[i].id] <= levels[vId]

\* C30: in the variant of autoLayout with a breadth-first search and a
\* relaxation, the while (changed) loop terminates for every finite graph,
\* self-loops and cycles included, and when it is left no resolved decision
\* edge has a source level greater than its target level.
C30_RelaxationTerminates ==
    /\ <>(relaxPc \in {"done", "returned"})
    /\ [](relaxPc = "done" => NoUpwardEdge)

\* the loop was left after it repaired the levels of a cycle in two passes
C30_Witness ==
    /\ relaxPc = "done"
    /\ passes >= 3
    /\ GraphHasCycle(layoutNodes)
    /\ NoUpwardEdge

\* the loop was left for a graph with a self-loop
C30_WitnessSelfLoop ==
    /\ relaxPc = "done"
    /\ HasSelfLoop(layoutNodes)
    /\ passes >= 2

====
